---- MODULE Spec2Model ----
(***************************************************************************)
(* Model of the AT45DB serial flash driver (AT45DB.h / AT45DB.cpp).        *)
(*                                                                         *)
(* The driver is a single thread of control; every statement that touches  *)
(* the chip-select pin or the SPI bus is one step of the model, so that    *)
(* the framing of each transaction is visible.  The chip is the            *)
(* environment: every byte it shifts back is chosen freely from a small    *)
(* set of representative bytes, except under ChipSpec, where the chip's    *)
(* main memory is followed and decides what a page read shifts back.       *)
(*                                                                         *)
(* Program positions are named <function>_<source line of AT45DB.cpp>.     *)
(***************************************************************************)
EXTENDS Integers, Sequences, FiniteSets, TLC

VARIABLES
    cs,          \* _at45cs: level of the chip-select pin
    at45id,      \* _at45id: identity cached on the handle
    pc,          \* position of the thread of control
    stack,       \* return positions of the active calls, innermost first
    ret,         \* value returned by the call that returned last (0 once the
                 \* owner makes the next call)
    at45dbid,    \* init(): local at45dbid
    init_status, \* init(): local status
    sp_status,   \* at45_set_pagesize_binary(): local status
    gs_data,     \* at45_get_status(): local data
    gi_data32,   \* at45_get_id(): local data32
    op,          \* observer: the public operation in progress / returned last
    open,        \* observer: select is held low by an assert of the driver
    cur,         \* observer: byte exchanges since select was last released
    last,        \* observer: the select window completed last since the call of op
    txlog,       \* observer: the first MaxLog select windows of op
    polls,       \* observer: status reads completed by the do-while of line 455
    at45_buffer,   \* _at45_buffer: selector of at45_writepage (at45_buffer1)
    g_at45_buffer, \* _g_at45_buffer: selector of at45_writebuffer and
                   \* at45_buffer2memory (g_at45_buffer1)
    addr,        \* argument addr of the operation in progress
    buff,        \* argument buff: the caller's source bytes, or, for
                 \* at45_readpage, the caller's destination buffer
    size,        \* argument size of the operation in progress
    opcode,      \* local opcode[] of the operation in progress
    hist,        \* observer: <<operation, opcode sent>> of the completed
                 \* at45_writepage, at45_writebuffer, at45_buffer2memory calls
    held,        \* observer: microseconds for which the wake-up pulse of
                 \* at45_ultra_deep_pwrdown_exit has held select low
    settled,     \* observer: the settle time of the chip has passed since
                 \* the wake-up pulse ended (TRUE while no wake-up is pending)
    mem,         \* the chip: contents of its main-memory pages, <<>> for a
                 \* page whose contents are not determined; the empty
                 \* function where the chip's memory is left out
    pending,     \* the chip: <<page, contents>> of the erase / program it is
                 \* busy with, <<>> when it is not busy
    written,     \* observer: per address, the payload of the page write the
                 \* owner made last, <<>> once the owner erased or committed
                 \* to the address since
    polled,      \* observer: at45_is_ready has returned true since the
                 \* owner's last page write, commit or erase
    other,       \* the private state (position, stack, returned value,
                 \* locals) of the execution context that is not running
    overlap      \* observer: a context has been switched out in the middle
                 \* of an operation

\* the selectors, the arguments, the wake-up observers
selv == <<at45_buffer, g_at45_buffer>>
argv == <<addr, buff, size>>
wakev == <<held, settled>>

\* the chip's memory and the observers of the owner's writes
chipv == <<mem, pending, written, polled>>

\* the second execution context
ctxv == <<other, overlap>>

\* the private state of a context that is between two calls
IdleContext ==
    [pc |-> "idle", stack |-> <<>>, ret |-> 0, gs_data |-> 0, gi_data32 |-> 0,
     op |-> "AT45DB"]

\* the state of the page, buffer and power operations
opv == <<selv, argv, opcode, hist, wakev, chipv, ctxv>>

\* the locals of the constructor, init and the status / identity / geometry
\* functions
ctorv == <<at45dbid, init_status, sp_status, gs_data, gi_data32, polls>>

vars == <<cs, at45id, pc, stack, ret, at45dbid, init_status, sp_status,
          gs_data, gi_data32, op, open, cur, last, txlog, polls, opv>>

-----------------------------------------------------------------------------
(* Bounds of the model *)

\* number of select windows of one operation that the observer keeps
MaxLog == 4

\* value at which the observer's count of polls stops counting
MaxPolls == 2

\* bytes the chip may answer to the identity read (0x00, 0x1F, 0x26)
IdBytes == {0, 31, 38}
\* bytes the chip may answer as status byte 1 (0x00, 0x01, 0x80, 0x81)
StatusBytes1 == {0, 1, 128, 129}
\* bytes the chip may answer as status byte 2 (0x01, 0x20)
StatusBytes2 == {1, 32}
\* values an uninitialised _at45id may hold when the constructor body starts
UninitIds == {0, 11259375}

-----------------------------------------------------------------------------
(* Constants of AT45DB.h *)

AT45_CS_LOW == 0
AT45_CS_HIGH == 1
DUMMY == 0
\* 0x2A, 0x80, 0xA6
AT45_BINARY_PAGE == <<42, 128, 166>>
\* 0x1F2600
AT45DB161E_ID == 2041344
\* 0xD7
AT45_STATUS_READ == 215
\* 0x9F
AT45_ID_READ == 159
\* 0x3D
AT45_BINARY_PAGE_FIRST_OPCODE == 61

-----------------------------------------------------------------------------
(* C integer arithmetic *)

RECURSIVE BitAnd(_, _)
BitAnd(a, b) ==
    IF a = 0 \/ b = 0 THEN 0
    ELSE (a % 2) * (b % 2) + 2 * BitAnd(a \div 2, b \div 2)

RECURSIVE BitOr(_, _)
BitOr(a, b) ==
    IF a = 0 THEN b
    ELSE IF b = 0 THEN a
    ELSE (IF (a % 2) + (b % 2) > 0 THEN 1 ELSE 0) + 2 * BitOr(a \div 2, b \div 2)

\* x >> n
Shr(x, n) == x \div (2 ^ n)

\* x << n stored in an unsigned integer of w bits: the bits shifted beyond
\* bit w-1 are dropped
Shl(x, n, w) == (x % (2 ^ (w - n))) * (2 ^ n)

\* conversion of an integer to bool, as 0 / 1
ToBool(x) == IF x # 0 THEN 1 ELSE 0

\* #define AT45_STATUS_READY(status)  (((status) >> 8) & 0x80)
AT45_STATUS_READY(status) == BitAnd(Shr(status, 8), 128)

\* variant: the binary-page bit looked for in bit 0 of the whole word
AT45_STATUS_BINARY_LowByte(status) == BitAnd(status, 1)

\* #define AT45_STATUS_BINARY(status) (((status) >> 8) & 0x01)
AT45_STATUS_BINARY(status) == BitAnd(Shr(status, 8), 1)

\* uint8_t devcmd[] = {AT45_BINARY_PAGE_FIRST_OPCODE, AT45_BINARY_PAGE};
devcmd == <<AT45_BINARY_PAGE_FIRST_OPCODE>> \o AT45_BINARY_PAGE

-----------------------------------------------------------------------------
(* The bus primitives *)

\* _at45spi.write(out) by function fn, the chip answering in
SpiWrite(fn, out, in) ==
    cur' = Append(cur, [fn |-> fn, out |-> out, in |-> in, cs |-> cs])

\* _at45spi.write(out) by function fn, the byte shifted back being discarded
SpiSend(fn, out) == SpiWrite(fn, out, -1)

\* _at45cs = AT45_CS_LOW
CsLow ==
    /\ cs' = AT45_CS_LOW
    /\ open' = TRUE
    /\ UNCHANGED <<cur, last, txlog>>

\* _at45cs = AT45_CS_HIGH; a window the driver opened is complete
CsHigh ==
    /\ cs' = AT45_CS_HIGH
    /\ open' = FALSE
    /\ IF open /\ cs = AT45_CS_LOW
       THEN /\ last' = cur
            /\ txlog' = IF Len(txlog) < MaxLog THEN Append(txlog, cur) ELSE txlog
            /\ cur' = <<>>
       ELSE UNCHANGED <<cur, last, txlog>>

NoBus == UNCHANGED <<cs, open, cur, last, txlog>>

\* call of a function whose first statement is at entry
Call(entry, back) ==
    /\ pc' = entry
    /\ stack' = <<back>> \o stack

\* return of value v to the caller
Return(v) ==
    /\ pc' = Head(stack)
    /\ stack' = Tail(stack)
    /\ ret' = v

-----------------------------------------------------------------------------
(* The chip's memory, as the comments of AT45DB.cpp (463-472, 494-511) and *)
(* AT45DB.h (60-67) describe the chip: a program or erase starts when      *)
(* select is released and the chip is busy until it is done; bit 7 of      *)
(* status byte 1 says that the chip is not busy.                           *)

\* the memory of the chip is part of the model
Tracked == mem # <<>>

\* the chip may answer b as status byte 1: a chip that is not busy says ready
ChipMayAnswer(b) == (Tracked /\ pending = <<>>) => BitAnd(b, 128) # 0

\* the chip's memory and work once it has answered b as status byte 1: a
\* chip that says ready has finished the erase / program it was busy with
ChipMemAfterStatus(b) ==
    IF Tracked /\ pending # <<>> /\ BitAnd(b, 128) # 0
    THEN [mem EXCEPT ![pending[1]] = pending[2]]
    ELSE mem

ChipPendingAfterStatus(b) ==
    IF Tracked /\ BitAnd(b, 128) # 0 THEN <<>> ELSE pending

-----------------------------------------------------------------------------
(* uint16_t AT45DB::at45_get_status(void) *)

GetStatus_401 ==
    /\ pc = "gs_401"
    /\ CsLow
    /\ pc' = "gs_402"
    /\ UNCHANGED <<at45id, stack, ret, at45dbid, init_status, sp_status,
                   gs_data, gi_data32, op, polls, opv>>

GetStatus_402 ==
    /\ pc = "gs_402"
    /\ SpiSend("at45_get_status", AT45_STATUS_READ)
    /\ pc' = "gs_403"
    /\ UNCHANGED <<cs, open, last, txlog, at45id, stack, ret, at45dbid,
                   init_status, sp_status, gs_data, gi_data32, op, polls, opv>>

\* variant: the first byte is not shifted into the upper byte
GetStatus_403_NoShift ==
    /\ pc = "gs_403"
    /\ \E b \in StatusBytes1 :
          /\ SpiWrite("at45_get_status", DUMMY, b)
          /\ gs_data' = b % 65536
    /\ pc' = "gs_405"
    /\ UNCHANGED <<cs, open, last, txlog, at45id, stack, ret, at45dbid,
                   init_status, sp_status, gi_data32, op, polls, opv>>

\* dataval = write(DUMMY); data = dataval << 8;
GetStatus_403 ==
    /\ pc = "gs_403"
    /\ \E b \in StatusBytes1 :
          /\ ChipMayAnswer(b)
          /\ SpiWrite("at45_get_status", DUMMY, b)
          /\ gs_data' = Shl(b % 65536, 8, 16)
          /\ mem' = ChipMemAfterStatus(b)
          /\ pending' = ChipPendingAfterStatus(b)
    /\ pc' = "gs_405"
    /\ UNCHANGED <<cs, open, last, txlog, at45id, stack, ret, at45dbid,
                   init_status, sp_status, gi_data32, op, polls, selv, argv,
                   opcode, hist, wakev, written, polled, ctxv>>

\* dataval = write(DUMMY); data |= dataval;
GetStatus_405 ==
    /\ pc = "gs_405"
    /\ \E b \in StatusBytes2 :
          /\ SpiWrite("at45_get_status", DUMMY, b)
          /\ gs_data' = BitOr(gs_data, b % 65536)
    /\ pc' = "gs_407"
    /\ UNCHANGED <<cs, open, last, txlog, at45id, stack, ret, at45dbid,
                   init_status, sp_status, gi_data32, op, polls, opv>>

\* variant: select is left asserted
GetStatus_407_NoDeassert ==
    /\ pc = "gs_407"
    /\ pc' = "gs_408"
    /\ NoBus
    /\ UNCHANGED <<at45id, stack, ret, at45dbid, init_status, sp_status,
                   gs_data, gi_data32, op, polls, opv>>

GetStatus_407 ==
    /\ pc = "gs_407"
    /\ CsHigh
    /\ pc' = "gs_408"
    /\ UNCHANGED <<at45id, stack, ret, at45dbid, init_status, sp_status,
                   gs_data, gi_data32, op, polls, opv>>

GetStatus_408 ==
    /\ pc = "gs_408"
    /\ Return(gs_data)
    /\ gs_data' = 0
    /\ NoBus
    /\ UNCHANGED <<at45id, at45dbid, init_status, sp_status, gi_data32, op, polls, opv>>

-----------------------------------------------------------------------------
(* unsigned int AT45DB::at45_get_id(void) *)

GetId_419 ==
    /\ pc = "gi_419"
    /\ CsLow
    /\ pc' = "gi_420"
    /\ UNCHANGED <<at45id, stack, ret, at45dbid, init_status, sp_status,
                   gs_data, gi_data32, op, polls, opv>>

GetId_420 ==
    /\ pc = "gi_420"
    /\ SpiSend("at45_get_id", AT45_ID_READ)
    /\ pc' = "gi_421"
    /\ UNCHANGED <<cs, open, last, txlog, at45id, stack, ret, at45dbid,
                   init_status, sp_status, gs_data, gi_data32, op, polls, opv>>

\* data32 = write(DUMMY);
GetId_421 ==
    /\ pc = "gi_421"
    /\ \E b \in IdBytes :
          /\ SpiWrite("at45_get_id", DUMMY, b)
          /\ gi_data32' = b
    /\ pc' = "gi_422"
    /\ UNCHANGED <<cs, open, last, txlog, at45id, stack, ret, at45dbid,
                   init_status, sp_status, gs_data, op, polls, opv>>

\* variant: the second byte is placed above the first (little-endian)
GetId_422_LittleEndian ==
    /\ pc = "gi_422"
    /\ \E b \in IdBytes :
          /\ SpiWrite("at45_get_id", DUMMY, b)
          /\ gi_data32' = BitOr(gi_data32, Shl(b, 8, 32))
    /\ pc' = "gi_424"
    /\ UNCHANGED <<cs, open, last, txlog, at45id, stack, ret, at45dbid,
                   init_status, sp_status, gs_data, op, polls, opv>>

\* data = write(DUMMY); data32 = (data32 << 8) | data;
GetId_422 ==
    /\ pc = "gi_422"
    /\ \E b \in IdBytes :
          /\ SpiWrite("at45_get_id", DUMMY, b)
          /\ gi_data32' = BitOr(Shl(gi_data32, 8, 32), b)
    /\ pc' = "gi_424"
    /\ UNCHANGED <<cs, open, last, txlog, at45id, stack, ret, at45dbid,
                   init_status, sp_status, gs_data, op, polls, opv>>

\* data = write(DUMMY); data32 = (data32 << 8) | data;
GetId_424 ==
    /\ pc = "gi_424"
    /\ \E b \in IdBytes :
          /\ SpiWrite("at45_get_id", DUMMY, b)
          /\ gi_data32' = BitOr(Shl(gi_data32, 8, 32), b)
    /\ pc' = "gi_426"
    /\ UNCHANGED <<cs, open, last, txlog, at45id, stack, ret, at45dbid,
                   init_status, sp_status, gs_data, op, polls, opv>>

\* variant: the identity read leaves select asserted
GetId_426_NoDeassert ==
    /\ pc = "gi_426"
    /\ pc' = "gi_427"
    /\ NoBus
    /\ UNCHANGED <<at45id, stack, ret, at45dbid, init_status, sp_status,
                   gs_data, gi_data32, op, polls, opv>>

GetId_426 ==
    /\ pc = "gi_426"
    /\ CsHigh
    /\ pc' = "gi_427"
    /\ UNCHANGED <<at45id, stack, ret, at45dbid, init_status, sp_status,
                   gs_data, gi_data32, op, polls, opv>>

\* variant: the identity is validated as init validates it before it is cached
GetId_427_Validates ==
    /\ pc = "gi_427"
    /\ at45id' = IF gi_data32 = AT45DB161E_ID THEN gi_data32 ELSE 0
    /\ Return(gi_data32)
    /\ gi_data32' = 0
    /\ NoBus
    /\ UNCHANGED <<at45dbid, init_status, sp_status, gs_data, op, polls, opv>>

\* _at45id = data32; return data32;
GetId_427 ==
    /\ pc = "gi_427"
    /\ at45id' = gi_data32
    /\ Return(gi_data32)
    /\ gi_data32' = 0
    /\ NoBus
    /\ UNCHANGED <<at45dbid, init_status, sp_status, gs_data, op, polls, opv>>

-----------------------------------------------------------------------------
(* bool AT45DB::at45_set_pagesize_binary(void) *)

\* status = AT45DB::at45_get_status();   (the call)
SetPagesize_447 ==
    /\ pc = "sp_447"
    /\ Call("gs_401", "sp_448")
    /\ NoBus
    /\ polls' = 0
    /\ UNCHANGED <<at45id, ret, at45dbid, init_status, sp_status, gs_data,
                   gi_data32, op, opv>>

\* variant: the frame is sent without looking at the status just read
SetPagesize_448_Unconditional ==
    /\ pc = "sp_448"
    /\ sp_status' = ret
    /\ pc' = "sp_449"
    /\ NoBus
    /\ UNCHANGED <<at45id, stack, ret, at45dbid, init_status, gs_data,
                   gi_data32, op, polls, opv>>

\* variant: the frame is also sent when the chip is binary but busy
SetPagesize_448_AlsoBusy ==
    /\ pc = "sp_448"
    /\ sp_status' = ret
    /\ pc' = IF AT45_STATUS_BINARY(ret) = 0 \/ AT45_STATUS_READY(ret) = 0
             THEN "sp_449" ELSE "sp_459"
    /\ NoBus
    /\ UNCHANGED <<at45id, stack, ret, at45dbid, init_status, gs_data,
                   gi_data32, op, polls, opv>>

\* status = <returned value>; if (!AT45_STATUS_BINARY(status)) {
SetPagesize_448 ==
    /\ pc = "sp_448"
    /\ sp_status' = ret
    /\ pc' = IF AT45_STATUS_BINARY(ret) = 0 THEN "sp_449" ELSE "sp_459"
    /\ NoBus
    /\ UNCHANGED <<at45id, stack, ret, at45dbid, init_status, gs_data,
                   gi_data32, op, polls, opv>>

SetPagesize_449 ==
    /\ pc = "sp_449"
    /\ CsLow
    /\ pc' = "sp_450"
    /\ UNCHANGED <<at45id, stack, ret, at45dbid, init_status, sp_status,
                   gs_data, gi_data32, op, polls, opv>>

SetPagesize_450 ==
    /\ pc = "sp_450"
    /\ SpiSend("at45_set_pagesize_binary", devcmd[1])
    /\ pc' = "sp_451"
    /\ UNCHANGED <<cs, open, last, txlog, at45id, stack, ret, at45dbid,
                   init_status, sp_status, gs_data, gi_data32, op, polls, opv>>

SetPagesize_451 ==
    /\ pc = "sp_451"
    /\ SpiSend("at45_set_pagesize_binary", devcmd[2])
    /\ pc' = "sp_452"
    /\ UNCHANGED <<cs, open, last, txlog, at45id, stack, ret, at45dbid,
                   init_status, sp_status, gs_data, gi_data32, op, polls, opv>>

SetPagesize_452 ==
    /\ pc = "sp_452"
    /\ SpiSend("at45_set_pagesize_binary", devcmd[3])
    /\ pc' = "sp_453"
    /\ UNCHANGED <<cs, open, last, txlog, at45id, stack, ret, at45dbid,
                   init_status, sp_status, gs_data, gi_data32, op, polls, opv>>

SetPagesize_453 ==
    /\ pc = "sp_453"
    /\ SpiSend("at45_set_pagesize_binary", devcmd[4])
    /\ pc' = "sp_454"
    /\ UNCHANGED <<cs, open, last, txlog, at45id, stack, ret, at45dbid,
                   init_status, sp_status, gs_data, gi_data32, op, polls, opv>>

SetPagesize_454 ==
    /\ pc = "sp_454"
    /\ CsHigh
    /\ pc' = "sp_456"
    /\ UNCHANGED <<at45id, stack, ret, at45dbid, init_status, sp_status,
                   gs_data, gi_data32, op, polls, opv>>

\* do { status = AT45DB::at45_get_status();   (the call)
SetPagesize_456 ==
    /\ pc = "sp_456"
    /\ Call("gs_401", "sp_457")
    /\ NoBus
    /\ UNCHANGED <<at45id, ret, at45dbid, init_status, sp_status, gs_data,
                   gi_data32, op, polls, opv>>

\* variant: the loop condition is inverted
SetPagesize_457_Inverted ==
    /\ pc = "sp_457"
    /\ sp_status' = ret
    /\ pc' = IF AT45_STATUS_READY(ret) # 0 THEN "sp_456" ELSE "sp_459"
    /\ NoBus
    /\ polls' = IF polls < MaxPolls THEN polls + 1 ELSE polls
    /\ UNCHANGED <<at45id, stack, ret, at45dbid, init_status, gs_data,
                   gi_data32, op, opv>>

\* variant: the loop gives up after its second status read
SetPagesize_457_GivesUp ==
    /\ pc = "sp_457"
    /\ sp_status' = ret
    /\ pc' = IF AT45_STATUS_READY(ret) = 0 /\ polls < 1 THEN "sp_456" ELSE "sp_459"
    /\ NoBus
    /\ polls' = IF polls < MaxPolls THEN polls + 1 ELSE polls
    /\ UNCHANGED <<at45id, stack, ret, at45dbid, init_status, gs_data,
                   gi_data32, op, opv>>

\* status = <returned value>; } while (!AT45_STATUS_READY(status));
SetPagesize_457 ==
    /\ pc = "sp_457"
    /\ sp_status' = ret
    /\ pc' = IF AT45_STATUS_READY(ret) = 0 THEN "sp_456" ELSE "sp_459"
    /\ NoBus
    /\ polls' = IF polls < MaxPolls THEN polls + 1 ELSE polls
    /\ UNCHANGED <<at45id, stack, ret, at45dbid, init_status, gs_data,
                   gi_data32, op, opv>>

\* variant: the ready bit is returned instead of the binary-page bit
SetPagesize_459_ReturnsReady ==
    /\ pc = "sp_459"
    /\ Return(ToBool(AT45_STATUS_READY(sp_status)))
    /\ sp_status' = 0
    /\ NoBus
    /\ polls' = 0
    /\ UNCHANGED <<at45id, at45dbid, init_status, gs_data, gi_data32, op, opv>>

\* return AT45_STATUS_BINARY(status);
SetPagesize_459 ==
    /\ pc = "sp_459"
    /\ Return(ToBool(AT45_STATUS_BINARY(sp_status)))
    /\ sp_status' = 0
    /\ NoBus
    /\ polls' = 0
    /\ UNCHANGED <<at45id, at45dbid, init_status, gs_data, gi_data32, op, opv>>

-----------------------------------------------------------------------------
(* unsigned int AT45DB::init(void) *)

\* _at45cs = AT45_CS_HIGH; _at45spi.frequency(AT45_SPI_FREQ);
Init_53 ==
    /\ pc = "init_53"
    /\ CsHigh
    /\ pc' = "init_59"
    /\ UNCHANGED <<at45id, stack, ret, at45dbid, init_status, sp_status,
                   gs_data, gi_data32, op, polls, opv>>

\* at45dbid = AT45DB::at45_get_id();   (the call)
Init_59 ==
    /\ pc = "init_59"
    /\ Call("gi_419", "init_60")
    /\ NoBus
    /\ UNCHANGED <<at45id, ret, at45dbid, init_status, sp_status, gs_data,
                   gi_data32, op, polls, opv>>

\* variant: init returns 0 as soon as the identity mismatches
Init_60_StopsOnMismatch ==
    /\ pc = "init_60"
    /\ at45dbid' = IF ret = AT45DB161E_ID THEN ret ELSE 0
    /\ pc' = IF ret = AT45DB161E_ID THEN "init_72" ELSE "init_91"
    /\ NoBus
    /\ UNCHANGED <<at45id, stack, ret, init_status, sp_status, gs_data,
                   gi_data32, op, polls, opv>>

\* variant: a mismatching identity is kept
Init_60_KeepsId ==
    /\ pc = "init_60"
    /\ at45dbid' = ret
    /\ pc' = "init_72"
    /\ NoBus
    /\ UNCHANGED <<at45id, stack, ret, init_status, sp_status, gs_data,
                   gi_data32, op, polls, opv>>

\* at45dbid = <returned value>; if (at45dbid == AT45DB161E_ID) {} else at45dbid = 0;
Init_60 ==
    /\ pc = "init_60"
    /\ at45dbid' = IF ret = AT45DB161E_ID THEN ret ELSE 0
    /\ pc' = "init_72"
    /\ NoBus
    /\ UNCHANGED <<at45id, stack, ret, init_status, sp_status, gs_data,
                   gi_data32, op, polls, opv>>

\* uint16_t status = AT45DB::at45_get_status();   (the call)
Init_72 ==
    /\ pc = "init_72"
    /\ Call("gs_401", "init_74")
    /\ NoBus
    /\ UNCHANGED <<at45id, ret, at45dbid, init_status, sp_status, gs_data,
                   gi_data32, op, polls, opv>>

\* variant: the geometry is configured whatever the status read reported
Init_74_AlwaysConfigures ==
    /\ pc = "init_74"
    /\ init_status' = ret
    /\ pc' = "init_79"
    /\ NoBus
    /\ UNCHANGED <<at45id, stack, ret, at45dbid, sp_status, gs_data,
                   gi_data32, op, polls, opv>>

\* status = <returned value>; if (AT45_STATUS_BINARY(status)) {} else {
Init_74 ==
    /\ pc = "init_74"
    /\ init_status' = ret
    /\ pc' = IF AT45_STATUS_BINARY(ret) # 0 THEN "init_91" ELSE "init_79"
    /\ NoBus
    /\ UNCHANGED <<at45id, stack, ret, at45dbid, sp_status, gs_data,
                   gi_data32, op, polls, opv>>

\* if (AT45DB::at45_set_pagesize_binary())   (the call)
Init_79 ==
    /\ pc = "init_79"
    /\ Call("sp_447", "init_83")
    /\ NoBus
    /\ UNCHANGED <<at45id, ret, at45dbid, init_status, sp_status, gs_data,
                   gi_data32, op, polls, opv>>

\* variant: a failed geometry configuration does not reset the identity
Init_83_KeepsId ==
    /\ pc = "init_83"
    /\ at45dbid' = at45dbid
    /\ pc' = "init_91"
    /\ NoBus
    /\ UNCHANGED <<at45id, stack, ret, init_status, sp_status, gs_data,
                   gi_data32, op, polls, opv>>

\* if (<returned value>) {} else at45dbid = 0;
Init_83 ==
    /\ pc = "init_83"
    /\ at45dbid' = IF ret # 0 THEN at45dbid ELSE 0
    /\ pc' = "init_91"
    /\ NoBus
    /\ UNCHANGED <<at45id, stack, ret, init_status, sp_status, gs_data,
                   gi_data32, op, polls, opv>>

\* return at45dbid;
Init_91 ==
    /\ pc = "init_91"
    /\ Return(at45dbid)
    /\ at45dbid' = 0
    /\ init_status' = 0
    /\ NoBus
    /\ UNCHANGED <<at45id, sp_status, gs_data, gi_data32, op, polls, opv>>

-----------------------------------------------------------------------------
(* AT45DB::AT45DB(PinName mosi, PinName miso, PinName sclk, PinName cs) *)

\* _at45id = AT45DB::init();   (the call)
Ctor_42 ==
    /\ pc = "ctor_42"
    /\ Call("init_53", "ctor_43")
    /\ NoBus
    /\ UNCHANGED <<at45id, ret, at45dbid, init_status, sp_status, gs_data,
                   gi_data32, op, polls, opv>>

\* _at45id = <returned value>; return;
Ctor_43 ==
    /\ pc = "ctor_43"
    /\ at45id' = ret
    /\ pc' = "idle"
    /\ NoBus
    /\ UNCHANGED <<stack, ret, at45dbid, init_status, sp_status, gs_data,
                   gi_data32, op, polls, opv>>

-----------------------------------------------------------------------------
(* The owner of the handle calls the public operations, one at a time *)

\* a call of public operation name with arguments a, b, n, after which the
\* observers written and polled are w and p; a call made while the other
\* context is inside an operation is not serialized with it
CallObserved(name, entry, a, b, n, w, p) ==
    /\ pc = "idle"
    /\ overlap' = (overlap \/ other.pc # "idle")
    /\ Call(entry, "idle")
    /\ op' = name
    /\ txlog' = <<>>
    /\ last' = <<>>
    /\ addr' = a
    /\ buff' = b
    /\ size' = n
    /\ held' = 0
    /\ ret' = 0
    /\ written' = w
    /\ polled' = p
    /\ UNCHANGED <<cs, open, cur, at45id, ctorv, selv, opcode, hist, settled,
                   mem, pending, other>>

\* a call of public operation name with arguments a, b, n
CallOp(name, entry, a, b, n) == CallObserved(name, entry, a, b, n, written, polled)

\* a call of public operation name, which has no arguments and whose first
\* statement is at entry
CallPublic(name, entry) == CallOp(name, entry, 0, <<>>, 0)

Call_at45_get_status == CallPublic("at45_get_status", "gs_401")

Call_at45_get_id == CallPublic("at45_get_id", "gi_419")

-----------------------------------------------------------------------------

Init ==
    /\ cs \in {AT45_CS_LOW, AT45_CS_HIGH}
    /\ at45id \in UninitIds
    /\ pc = "ctor_42"
    /\ stack = <<>>
    /\ ret = 0
    /\ at45dbid = 0
    /\ init_status = 0
    /\ sp_status = 0
    /\ gs_data = 0
    /\ gi_data32 = 0
    /\ op = "AT45DB"
    /\ open = FALSE
    /\ cur = <<>>
    /\ last = <<>>
    /\ txlog = <<>>
    /\ polls = 0
    /\ at45_buffer = TRUE
    /\ g_at45_buffer = TRUE
    /\ addr = 0
    /\ buff = <<>>
    /\ size = 0
    /\ opcode = <<>>
    /\ hist = <<>>
    /\ held = 0
    /\ settled = TRUE
    /\ mem = <<>>
    /\ pending = <<>>
    /\ written = <<>>
    /\ polled = TRUE
    /\ other = IdleContext
    /\ overlap = FALSE

Next ==
    \/ Ctor_42 \/ Ctor_43
    \/ Init_53 \/ Init_59 \/ Init_60 \/ Init_72 \/ Init_74 \/ Init_79
    \/ Init_83 \/ Init_91
    \/ GetStatus_401 \/ GetStatus_402 \/ GetStatus_403 \/ GetStatus_405
    \/ GetStatus_407 \/ GetStatus_408
    \/ GetId_419 \/ GetId_420 \/ GetId_421 \/ GetId_422 \/ GetId_424
    \/ GetId_426 \/ GetId_427
    \/ SetPagesize_447 \/ SetPagesize_448 \/ SetPagesize_449
    \/ SetPagesize_450 \/ SetPagesize_451 \/ SetPagesize_452
    \/ SetPagesize_453 \/ SetPagesize_454 \/ SetPagesize_456
    \/ SetPagesize_457 \/ SetPagesize_459
    \/ Call_at45_get_status \/ Call_at45_get_id

Spec == Init /\ [][Next]_vars

-----------------------------------------------------------------------------
(* Reading the observers *)

\* the bytes sent / received in select window w, in order
Outs(w) == [i \in 1..Len(w) |-> w[i].out]
Ins(w) == [i \in 1..Len(w) |-> w[i].in]

\* the bytes one transaction of function fn sends, as the wire contract has them
FrameOf(fn) ==
    CASE fn = "at45_get_status" -> <<215, 0, 0>>
      [] fn = "at45_get_id" -> <<159, 0, 0, 0>>
      [] fn = "at45_set_pagesize_binary" -> <<61, 42, 128, 166>>
      [] OTHER -> <<>>

\* w holds the byte exchanges of exactly one whole transaction of one function
IsFrame(w) ==
    /\ Len(w) >= 1
    /\ \A i \in 1..Len(w) : w[i].fn = w[1].fn /\ w[i].cs = 0
    /\ Outs(w) = FrameOf(w[1].fn)

\* w holds the first exchanges of one transaction of one function
IsFramePrefix(w) ==
    \/ w = <<>>
    \/ /\ \A i \in 1..Len(w) : w[i].fn = w[1].fn /\ w[i].cs = 0
       /\ Len(w) <= Len(FrameOf(w[1].fn))
       /\ Outs(w) = SubSeq(FrameOf(w[1].fn), 1, Len(w))

IsStatusRead(w) == Len(w) = 3 /\ Outs(w) = <<215, 0, 0>>
IsIdRead(w) == Len(w) = 4 /\ Outs(w) = <<159, 0, 0, 0>>
IsGeometryFrame(w) == Len(w) = 4 /\ Outs(w) = <<61, 42, 128, 166>>

\* the status word / identity the received bytes of a window stand for
WordOf(w) == w[2].in * 256 + w[3].in
IdOf(w) == w[2].in * 65536 + w[3].in * 256 + w[4].in

\* positions between two operations: at a call, or right after a return
CallPoints == {"init_59", "init_72", "init_79", "sp_447", "sp_456", "idle"}
ReturnPoints == {"init_60", "init_74", "init_83", "sp_448", "sp_457",
                 "ctor_43", "idle"}

\* the handle is constructed and no operation was called on it since
Constructed == pc = "idle" /\ op = "AT45DB"

-----------------------------------------------------------------------------
C2_ReadStatus ==
    /\ pc = "gs_408" =>
          IsStatusRead(last) /\ cur = <<>> /\ gs_data = WordOf(last)
    /\ pc \in {"init_74", "sp_448", "sp_457"} =>
          IsStatusRead(last) /\ ret = WordOf(last)
    /\ (pc = "idle" /\ op = "at45_get_status") =>
          /\ Len(txlog) = 1
          /\ IsStatusRead(txlog[1])
          /\ ret = txlog[1][2].in * 256 + txlog[1][3].in

\* a public Read Status answered 0x81 0x20 returned 0x8120
C2_Witness ==
    /\ pc = "idle"
    /\ op = "at45_get_status"
    /\ Ins(txlog[1]) = <<-1, 129, 32>>
    /\ ret = 33056

(* C3: Read Identity performs exactly one transaction, opcode 0x9F         *)
(* followed by three dummy bytes, and returns and caches on the handle     *)
(* b1 * 65536 + b2 * 256 + b3; bytes 1F 26 00 give 0x1F2600, the supported *)
(* identity.                                                               *)
C3_ReadIdentity ==
    /\ pc = "init_60" =>
          IsIdRead(last) /\ ret = IdOf(last) /\ at45id = ret
    /\ (pc = "idle" /\ op = "at45_get_id") =>
          /\ Len(txlog) = 1
          /\ IsIdRead(txlog[1])
          /\ ret = txlog[1][2].in * 65536 + txlog[1][3].in * 256 + txlog[1][4].in
          /\ at45id = ret
          /\ Ins(txlog[1]) = <<-1, 31, 38, 0>> =>
                ret = 2041344 /\ ret = AT45DB161E_ID

\* a public Read Identity answered 1F 26 00 cached 0x1F2600
C3_Witness ==
    /\ pc = "idle"
    /\ op = "at45_get_id"
    /\ Ins(txlog[1]) = <<-1, 31, 38, 0>>
    /\ at45id = 2041344

-----------------------------------------------------------------------------
(* Reading the status bytes a window received *)

\* bit 7 / bit 0 of status byte 1 as received in status-read window w
ReadyBit(w) == (w[2].in \div 128) % 2 = 1
BinaryBit(w) == w[2].in % 2 = 1

\* the identity read of init answered the supported identity
IdMatched == Len(txlog) >= 1 /\ IsIdRead(txlog[1]) /\ IdOf(txlog[1]) = 2041344

\* select windows 3 and 4 of the construction are those of Configure Binary
\* Geometry: its status read and its geometry-change frame
FrameSent == Len(txlog) >= 4 /\ IsGeometryFrame(txlog[4])

\* Configure Binary Geometry sent its frame, the chip went ready, and the
\* binary-page bit is still clear
GeometryFailed ==
    /\ FrameSent
    /\ IsStatusRead(last)
    /\ ReadyBit(last)
    /\ ~BinaryBit(last)

\* every status read the observers hold was answered b1 b2
AllStatusAnswers(b1, b2) ==
    /\ \A k \in 1..Len(txlog) :
          IsStatusRead(txlog[k]) => Ins(txlog[k]) = <<-1, b1, b2>>
    /\ IsStatusRead(last) => Ins(last) = <<-1, b1, b2>>

(* C4: when construction completes the handle's identity is 0 or 0x1F2600, *)
(* and it is 0x1F2600 only if the identity read of init was 0x1F2600 and   *)
(* the last status word read during init had bit 0 of status byte 1 set.   *)
C4_TerminalIdentity ==
    Constructed =>
       /\ at45id \in {0, 2041344}
       /\ at45id = 2041344 =>
             /\ IdMatched
             /\ IsStatusRead(last)
             /\ BinaryBit(last)

\* usable after a geometry reconfiguration
C4_Witness ==
    /\ Constructed
    /\ at45id = 2041344
    /\ FrameSent
    /\ BinaryBit(last)

(* C5: if the identity read of init differs from 0x1F2600, init returns 0  *)
(* and the constructed handle's identity is 0, whatever the status read    *)
(* and the geometry configuration report.                                  *)
C5_MismatchGivesZero ==
    /\ (pc = "init_91" /\ ~IdMatched) => at45dbid = 0
    /\ (pc = "ctor_43" /\ ~IdMatched) => ret = 0
    /\ (Constructed /\ ~IdMatched) => at45id = 0

\* identity 1F 26 1F, geometry reconfigured successfully, identity 0
C5_Witness ==
    /\ Constructed
    /\ Ins(txlog[1]) = <<-1, 31, 38, 31>>
    /\ FrameSent
    /\ ReadyBit(last) /\ BinaryBit(last)
    /\ at45id = 0

(* C6: if the status read of init reports non-binary geometry and          *)
(* Configure Binary Geometry returns false (chip ready, binary bit still   *)
(* clear), the handle's identity is 0 even when the identity read matched: *)
(* the same value an unrecognised device leaves.                           *)
C6_GeometryFailureGivesZero ==
    /\ (pc = "init_83" /\ ret = 0) =>
          ~BinaryBit(txlog[2]) /\ GeometryFailed
    /\ (pc = "init_91" /\ GeometryFailed) => at45dbid = 0
    /\ (pc = "ctor_43" /\ GeometryFailed) => ret = 0
    /\ (Constructed /\ GeometryFailed) => at45id = 0

\* the supported identity was read, the geometry failed, identity 0
C6_Witness ==
    /\ Constructed
    /\ IdMatched
    /\ ~BinaryBit(txlog[2])
    /\ GeometryFailed
    /\ at45id = 0

(* C7 as stated: construction over a chip answering the identity read 1F   *)
(* 26 00 and every status read 80 01 leaves identity 0x1F2600, 80 01 being *)
(* taken as binary mode.                                                   *)
C7_Original ==
    (Constructed /\ Ins(txlog[1]) = <<-1, 31, 38, 0>> /\ AllStatusAnswers(128, 1)) =>
       at45id = 2041344

(* C7 amended: construction over a chip answering the identity read 1F 26  *)
(* 00 and every status read 81 01 (bit 0 of status byte 1 set) leaves      *)
(* identity 0x1F2600 after two transactions; status bytes 80 01 have that  *)
(* bit clear, are taken as non-binary, the geometry frame is sent, and the *)
(* handle ends with identity 0.                                            *)
C7_Scenario ==
    /\ (Constructed /\ Ins(txlog[1]) = <<-1, 31, 38, 0>> /\ AllStatusAnswers(129, 1)) =>
          at45id = 2041344 /\ Len(txlog) = 2
    /\ (Constructed /\ Ins(txlog[1]) = <<-1, 31, 38, 0>> /\ AllStatusAnswers(128, 1)) =>
          at45id = 0 /\ FrameSent

\* the scenario with status bytes 81 01
C7_Witness ==
    /\ Constructed
    /\ Ins(txlog[1]) = <<-1, 31, 38, 0>>
    /\ Len(txlog) = 2
    /\ AllStatusAnswers(129, 1)
    /\ at45id = 2041344

(* C8: Configure Binary Geometry whose status read reports binary mode     *)
(* performs that one transaction only, sends no geometry frame, does not   *)
(* poll, and returns true whatever the ready bit.                          *)
C8_AlreadyBinary ==
    /\ pc \in {"sp_459", "init_83"} => Len(txlog) >= 3 /\ IsStatusRead(txlog[3])
    /\ (pc = "sp_459" /\ BinaryBit(txlog[3])) =>
          Len(txlog) = 3 /\ last = txlog[3] /\ polls = 0
    /\ (pc = "init_83" /\ BinaryBit(txlog[3])) =>
          Len(txlog) = 3 /\ last = txlog[3] /\ ret = 1

\* returned true on a status that is binary and busy (byte 1 = 0x01)
C8_Witness ==
    /\ pc = "init_83"
    /\ Len(txlog) = 3
    /\ txlog[3][2].in = 1
    /\ ret = 1

(* C9: Configure Binary Geometry whose status read reports non-binary mode *)
(* sends in one transaction the bytes 3D 2A 80 A6, then reads the status   *)
(* at least once and again as long as the ready bit is clear; it returns   *)
(* true iff the last status word read has the binary-page bit set.         *)
C9_Reconfigure ==
    /\ (pc = "sp_456") =>
          /\ FrameSent
          /\ \/ polls = 0 /\ last = txlog[4]
             \/ polls >= 1 /\ IsStatusRead(last) /\ ~ReadyBit(last)
    /\ (pc = "sp_459" /\ ~BinaryBit(txlog[3])) =>
          /\ FrameSent
          /\ \A k \in 5..Len(txlog) : IsStatusRead(txlog[k])
          /\ polls >= 1
          /\ IsStatusRead(last)
          /\ ReadyBit(last)
          /\ sp_status = WordOf(last)
    /\ (pc = "init_83" /\ ~BinaryBit(txlog[3])) =>
          /\ FrameSent
          /\ IsStatusRead(last)
          /\ ReadyBit(last)
          /\ ret \in {0, 1}
          /\ ret = 1 <=> BinaryBit(last)

\* returned false although the chip went ready after two polls
C9_Witness ==
    /\ pc = "sp_459"
    /\ FrameSent
    /\ polls >= 2
    /\ ReadyBit(last)
    /\ ~BinaryBit(last)

\* control is inside the do-while of lines 455-457
InPollLoop ==
    \/ pc \in {"sp_456", "sp_457"}
    \/ Len(stack) >= 1 /\ Head(stack) = "sp_457"

(* C10: the busy-poll has no timeout: the loop is left only right after a  *)
(* status read whose ready bit is set; after a status read with the ready  *)
(* bit clear another status read is issued, however many were made; and a  *)
(* construction that sent the frame completes only after a ready status.   *)
C10_NoTimeout ==
    /\ [](Constructed /\ FrameSent => IsStatusRead(last) /\ ReadyBit(last))
    /\ [][ /\ pc = "sp_456" => pc' = "gs_401" /\ Head(stack') = "sp_457"
           /\ (pc = "sp_457" /\ (ret \div 32768) % 2 = 0) => pc' = "sp_456"
           /\ (InPollLoop /\ ~InPollLoop') =>
                 pc = "sp_457" /\ (ret \div 32768) % 2 = 1 ]_vars

\* as many polls as the observer counts all found the chip busy, and the
\* next status read is about to be made
C10_Witness ==
    /\ pc = "sp_456"
    /\ polls = MaxPolls
    /\ IsStatusRead(last)
    /\ ~ReadyBit(last)

-----------------------------------------------------------------------------
(* The page, buffer, erase and power operations.                           *)
(*                                                                         *)
(* AT45DB.h declares them (lines 165-243) and keeps their two selectors as *)
(* members (lines 251-252); AT45DB.cpp carries their bodies as the C text  *)
(* of lines 474-647, which is what the steps below follow.  The DMA        *)
(* transfer of that text (lwspi_dma_tx / lwspi_dma_rx followed by the      *)
(* flush) clocks the header and then the data through the bus within one   *)
(* statement, so it is one step here.                                      *)

\* opcodes of enum CMDCODES
AT45_PAGE_READ == 210
AT45_PAGE_ERASE == 129
AT45_PAGE_WRITE_BUF1 == 130
AT45_PAGE_WRITE_BUF2 == 133
AT45_BUFFER_WRITE_BUF1 == 132
AT45_BUFFER_WRITE_BUF2 == 135
AT45_BUFFER_TO_MAIN_MEMORY_BUF1 == 131
AT45_BUFFER_TO_MAIN_MEMORY_BUF2 == 134
AT45_ULTRA_DEEP_PDOWN == 121

\* #define AT45_PAGE_SIZE 512
AT45_PAGE_SIZE == 512

\* variant: the error predicate answers for any set bit of the lower byte
AT45_STATUS_EP_ERROR_AnyLowBit(status) == BitAnd(status, 255)

\* #define AT45_STATUS_EP_ERROR(status)  (((status) & 0xff) & 0x20)
AT45_STATUS_EP_ERROR(status) == BitAnd(BitAnd(status, 255), 32)

\* addresses the caller passes: 0x000200, 0x123456 and 0x01123456, whose
\* bit 24 does not fit three bytes
Addrs == {512, 1193046, 17970262}

\* byte counts the caller passes
Sizes == {0, 2, AT45_PAGE_SIZE}

\* the caller's source bytes are Payload(k, n) for a key k of PayloadKeys,
\* the bytes the chip shifts back on a read are Payload(k, n) for a key k
\* of RxKeys
PayloadKeys == {1, 7}
RxKeys == {3, 255}
Payload(k, n) == [i \in 1..n |-> (k * i) % 256]

\* elements that the caller's destination buffer has beyond the size it
\* passes, and the value that marks an element never stored to
Guard == 1
Untouched == -2

\* number of completed page writes, buffer writes and commits the observer
\* hist records; no further call of the three is made once it is full
MaxHist == 3

\* variant: the address bytes least significant first
AddrBytes_LsbFirst(a) ==
    << Shr(BitAnd(a, 255), 0) % 256,
       Shr(BitAnd(a, 65280), 8) % 256,
       Shr(BitAnd(a, 16711680), 16) % 256 >>

\* opcode[1], opcode[2], opcode[3] as lines 479-481 (522-524, 544-546,
\* 567-569, 586-588) compute them
AddrBytes(a) ==
    << Shr(BitAnd(a, 16711680), 16) % 256,
       Shr(BitAnd(a, 65280), 8) % 256,
       Shr(BitAnd(a, 255), 0) % 256 >>

\* exchanges of one DMA transfer: bytes outs are sent, bytes ins received
Exchanges(fn, outs, ins) ==
    [i \in 1..Len(outs) |-> [fn |-> fn, out |-> outs[i], in |-> ins[i], cs |-> cs]]

\* n received bytes that the transfer discards
Discarded(n) == [i \in 1..n |-> -1]

\* n dummy bytes
Dummies(n) == [i \in 1..n |-> DUMMY]

\* the address, page and offset in the page that the chip reads from the
\* bytes 2..4 of a frame, and the data bytes that follow the four-byte header
FrameAddr(bytes) == bytes[2] * 65536 + bytes[3] * 256 + bytes[4]
FramePage(bytes) == FrameAddr(bytes) \div AT45_PAGE_SIZE
FrameOffset(bytes) == FrameAddr(bytes) % AT45_PAGE_SIZE
FrameData(bytes) == SubSeq(bytes, 5, Len(bytes))

\* an erased page: every bit is 1
ChipErased == [i \in 1..AT45_PAGE_SIZE |-> 255]

\* the frame starts an erase / program of a page of the chip's memory
ChipStarts(bytes) ==
    /\ Tracked
    /\ Len(bytes) >= 4
    /\ bytes[1] \in {AT45_PAGE_WRITE_BUF1, AT45_PAGE_WRITE_BUF2,
                     AT45_BUFFER_TO_MAIN_MEMORY_BUF1,
                     AT45_BUFFER_TO_MAIN_MEMORY_BUF2, AT45_PAGE_ERASE}
    /\ FramePage(bytes) \in DOMAIN mem

\* what the page holds once the erase / program the frame starts is done: a
\* page write of a whole page from offset 0 leaves its data, an erase leaves
\* the erased page; what a shorter or unaligned page write and what a commit
\* of a RAM buffer leave is not determined here
ChipContent(bytes) ==
    CASE bytes[1] \in {AT45_PAGE_WRITE_BUF1, AT45_PAGE_WRITE_BUF2} ->
             IF FrameOffset(bytes) = 0 /\ Len(FrameData(bytes)) = AT45_PAGE_SIZE
             THEN FrameData(bytes) ELSE <<>>
      [] bytes[1] = AT45_PAGE_ERASE -> ChipErased
      [] OTHER -> <<>>

\* the chip's memory and work after select is released at the end of window
\* w: the page is in the making until the chip is done; a frame that arrives
\* while the chip is busy leaves both pages undetermined
ChipMemAfterRelease(w) ==
    IF ~ChipStarts(Outs(w)) THEN mem
    ELSE IF pending = <<>>
         THEN [mem EXCEPT ![FramePage(Outs(w))] = <<>>]
         ELSE [mem EXCEPT ![FramePage(Outs(w))] = <<>>, ![pending[1]] = <<>>]

ChipPendingAfterRelease(w) ==
    IF ~ChipStarts(Outs(w)) THEN pending
    ELSE IF pending = <<>>
         THEN <<FramePage(Outs(w)), ChipContent(Outs(w))>>
         ELSE <<>>

\* the sequences of n bytes the chip may shift back after the header hdr of
\* a read: the page from its start when the header is D2h, three address
\* bytes of offset 0 and four dummy bytes, the chip is not busy and the
\* contents of the page are determined; any bytes otherwise
ChipReadData(hdr, n) ==
    IF /\ Tracked
       /\ pending = <<>>
       /\ Len(hdr) = 8
       /\ hdr[1] = AT45_PAGE_READ
       /\ FramePage(hdr) \in DOMAIN mem
       /\ FrameOffset(hdr) = 0
       /\ n <= AT45_PAGE_SIZE
       /\ mem[FramePage(hdr)] # <<>>
    THEN {SubSeq(mem[FramePage(hdr)], 1, n)}
    ELSE {Payload(k, n) : k \in RxKeys}

\* lwspi_dma_cs_assert(...)
OpAssert(at, next) ==
    /\ pc = at
    /\ CsLow
    /\ pc' = next
    /\ UNCHANGED <<at45id, stack, ret, ctorv, op, opv>>

\* lwspi_dma_tx(...) with the header opcode[] and the first n bytes of buff
\* as data; lwspi_dma_flush_tx(...)
OpDmaTx(fn, at, next, n) ==
    /\ pc = at
    /\ cur' = cur \o Exchanges(fn, opcode \o SubSeq(buff, 1, n),
                               Discarded(Len(opcode) + n))
    /\ pc' = next
    /\ UNCHANGED <<cs, open, last, txlog, at45id, stack, ret, ctorv, op, opv>>

\* lwspi_dma_cs_deassert(...); h is the record the observer hist gains
OpDeassert(at, next, h) ==
    /\ pc = at
    /\ CsHigh
    /\ pc' = next
    /\ hist' = hist \o h
    /\ mem' = ChipMemAfterRelease(cur)
    /\ pending' = ChipPendingAfterRelease(cur)
    /\ UNCHANGED <<at45id, stack, ret, ctorv, op, selv, argv, opcode, wakev,
                   written, polled, ctxv>>

\* return TRUE;
OpReturnTrue(at) ==
    /\ pc = at
    /\ Return(1)
    /\ opcode' = <<>>
    /\ NoBus
    /\ UNCHANGED <<at45id, ctorv, op, selv, argv, hist, wakev, chipv, ctxv>>

-----------------------------------------------------------------------------
(* bool_t at45_readpage(uint32 addr, uint8 *buff, uint32 size) *)

\* uint8 opcode[8] = {AT45_PAGE_READ}; opcode[1..3] = the address bytes
ReadPage_476 ==
    /\ pc = "rp_476"
    /\ opcode' = <<AT45_PAGE_READ>> \o AddrBytes(addr) \o <<0, 0, 0, 0>>
    /\ pc' = "rp_483"
    /\ NoBus
    /\ UNCHANGED <<at45id, stack, ret, ctorv, op, selv, argv, hist, wakev, chipv, ctxv>>

ReadPage_483 == OpAssert("rp_483", "rp_488")

\* variant: one byte more than size is received and stored
ReadPage_488_Overrun ==
    /\ pc = "rp_488"
    /\ \E d \in ChipReadData(opcode, size + 1) :
          /\ cur' = cur \o Exchanges("at45_readpage", opcode, Discarded(Len(opcode)))
                        \o Exchanges("at45_readpage", Dummies(size + 1), d)
          /\ buff' = [i \in 1..Len(buff) |->
                         IF i <= size + 1 THEN d[i] ELSE buff[i]]
    /\ pc' = "rp_490"
    /\ UNCHANGED <<cs, open, last, txlog, at45id, stack, ret, ctorv, op, selv,
                   addr, size, opcode, hist, wakev, chipv, ctxv>>

\* lwspi_dma_rx(...): the header opcode[] is sent, then data_len = size bytes
\* are received into buff[0..size-1]; lwspi_dma_flush_rx(...)
ReadPage_488 ==
    /\ pc = "rp_488"
    /\ \E d \in ChipReadData(opcode, size) :
          /\ cur' = cur \o Exchanges("at45_readpage", opcode, Discarded(Len(opcode)))
                        \o Exchanges("at45_readpage", Dummies(size), d)
          /\ buff' = [i \in 1..Len(buff) |-> IF i <= size THEN d[i] ELSE buff[i]]
    /\ pc' = "rp_490"
    /\ UNCHANGED <<cs, open, last, txlog, at45id, stack, ret, ctorv, op, selv,
                   addr, size, opcode, hist, wakev, chipv, ctxv>>

ReadPage_490 == OpDeassert("rp_490", "rp_491", <<>>)

ReadPage_491 == OpReturnTrue("rp_491")

-----------------------------------------------------------------------------
(* bool_t at45_writepage(uint32 addr, uint8 *buff, uint32 size) *)

\* variant: the selector of the page writes is left as it is
WritePage_519_NoToggle ==
    /\ pc = "wp_519"
    /\ opcode' = <<IF at45_buffer THEN AT45_PAGE_WRITE_BUF1
                                  ELSE AT45_PAGE_WRITE_BUF2>> \o AddrBytes(addr)
    /\ pc' = "wp_525"
    /\ NoBus
    /\ UNCHANGED <<at45id, stack, ret, ctorv, op, selv, argv, hist, wakev, chipv, ctxv>>

\* opcode[0] = at45_buffer1 ? AT45_PAGE_WRITE_BUF1 : AT45_PAGE_WRITE_BUF2;
\* at45_buffer1 = !at45_buffer1; opcode[1..3] = the address bytes
WritePage_519 ==
    /\ pc = "wp_519"
    /\ opcode' = <<IF at45_buffer THEN AT45_PAGE_WRITE_BUF1
                                  ELSE AT45_PAGE_WRITE_BUF2>> \o AddrBytes(addr)
    /\ at45_buffer' = ~at45_buffer
    /\ pc' = "wp_525"
    /\ NoBus
    /\ UNCHANGED <<at45id, stack, ret, ctorv, op, g_at45_buffer, argv, hist, wakev, chipv, ctxv>>

WritePage_525 == OpAssert("wp_525", "wp_530")

\* variant: the payload is sent last byte first
WritePage_530_LastByteFirst ==
    /\ pc = "wp_530"
    /\ cur' = cur \o Exchanges("at45_writepage",
                               opcode \o [i \in 1..size |-> buff[size + 1 - i]],
                               Discarded(Len(opcode) + size))
    /\ pc' = "wp_532"
    /\ UNCHANGED <<cs, open, last, txlog, at45id, stack, ret, ctorv, op, opv>>

WritePage_530 == OpDmaTx("at45_writepage", "wp_530", "wp_532", size)

WritePage_532 ==
    OpDeassert("wp_532", "wp_533", << <<"at45_writepage", cur[1].out>> >>)

\* variant: the page write polls at45_is_ready until the chip is ready
WritePage_533_WaitsReady ==
    /\ pc = "wp_533"
    /\ IF ret = 0
       THEN /\ Call("ir_639", "wp_533")
            /\ UNCHANGED <<ret, opcode>>
       ELSE /\ Return(1)
            /\ opcode' = <<>>
    /\ NoBus
    /\ UNCHANGED <<at45id, ctorv, op, selv, argv, hist, wakev, chipv, ctxv>>

WritePage_533 == OpReturnTrue("wp_533")

-----------------------------------------------------------------------------
(* bool_t at45_writebuffer(uint32 addr, uint8 *buff, uint32 size) *)

\* variant: the buffer write reads the selector of the page writes
WriteBuffer_542_PageSelector ==
    /\ pc = "wb_542"
    /\ opcode' = <<IF at45_buffer THEN AT45_BUFFER_WRITE_BUF1
                                  ELSE AT45_BUFFER_WRITE_BUF2>> \o AddrBytes(addr)
    /\ pc' = "wb_547"
    /\ NoBus
    /\ UNCHANGED <<at45id, stack, ret, ctorv, op, selv, argv, hist, wakev, chipv, ctxv>>

\* variant: the buffer write toggles the selector it reads
WriteBuffer_542_Toggles ==
    /\ pc = "wb_542"
    /\ opcode' = <<IF g_at45_buffer THEN AT45_BUFFER_WRITE_BUF1
                                    ELSE AT45_BUFFER_WRITE_BUF2>> \o AddrBytes(addr)
    /\ g_at45_buffer' = ~g_at45_buffer
    /\ pc' = "wb_547"
    /\ NoBus
    /\ UNCHANGED <<at45id, stack, ret, ctorv, op, at45_buffer, argv, hist, wakev, chipv, ctxv>>

\* opcode[0] = g_at45_buffer1 ? AT45_BUFFER_WRITE_BUF1 : AT45_BUFFER_WRITE_BUF2;
\* opcode[1..3] = the address bytes
WriteBuffer_542 ==
    /\ pc = "wb_542"
    /\ opcode' = <<IF g_at45_buffer THEN AT45_BUFFER_WRITE_BUF1
                                    ELSE AT45_BUFFER_WRITE_BUF2>> \o AddrBytes(addr)
    /\ pc' = "wb_547"
    /\ NoBus
    /\ UNCHANGED <<at45id, stack, ret, ctorv, op, selv, argv, hist, wakev, chipv, ctxv>>

WriteBuffer_547 == OpAssert("wb_547", "wb_552")

WriteBuffer_552 == OpDmaTx("at45_writebuffer", "wb_552", "wb_554", size)

WriteBuffer_554 ==
    OpDeassert("wb_554", "wb_555", << <<"at45_writebuffer", cur[1].out>> >>)

WriteBuffer_555 == OpReturnTrue("wb_555")

-----------------------------------------------------------------------------
(* bool_t at45_buffer2memory(uint32 addr) *)

\* variant: the commit reads and toggles the selector of the page writes
Buffer2Memory_563_SharedSelector ==
    /\ pc = "bm_563"
    /\ opcode' = <<IF at45_buffer THEN AT45_BUFFER_TO_MAIN_MEMORY_BUF1
                                  ELSE AT45_BUFFER_TO_MAIN_MEMORY_BUF2>>
                 \o AddrBytes(addr)
    /\ at45_buffer' = ~at45_buffer
    /\ pc' = "bm_570"
    /\ NoBus
    /\ UNCHANGED <<at45id, stack, ret, ctorv, op, g_at45_buffer, argv, hist, wakev, chipv, ctxv>>

\* opcode[0] = g_at45_buffer1 ? AT45_BUFFER_TO_MAIN_MEMORY_BUF1
\*                            : AT45_BUFFER_TO_MAIN_MEMORY_BUF2;
\* g_at45_buffer1 = !g_at45_buffer1; opcode[1..3] = the address bytes
Buffer2Memory_563 ==
    /\ pc = "bm_563"
    /\ opcode' = <<IF g_at45_buffer THEN AT45_BUFFER_TO_MAIN_MEMORY_BUF1
                                    ELSE AT45_BUFFER_TO_MAIN_MEMORY_BUF2>>
                 \o AddrBytes(addr)
    /\ g_at45_buffer' = ~g_at45_buffer
    /\ pc' = "bm_570"
    /\ NoBus
    /\ UNCHANGED <<at45id, stack, ret, ctorv, op, at45_buffer, argv, hist, wakev, chipv, ctxv>>

Buffer2Memory_570 == OpAssert("bm_570", "bm_575")

\* spi_data.data = NULL; spi_data.data_len = 0; lwspi_dma_tx(...)
Buffer2Memory_575 == OpDmaTx("at45_buffer2memory", "bm_575", "bm_577", 0)

Buffer2Memory_577 ==
    OpDeassert("bm_577", "bm_578", << <<"at45_buffer2memory", cur[1].out>> >>)

Buffer2Memory_578 == OpReturnTrue("bm_578")

-----------------------------------------------------------------------------
(* bool_t at45_erasepage(uint32 addr) *)

\* uint8 opcode[4] = {AT45_PAGE_ERASE}; opcode[1..3] = the address bytes
ErasePage_583 ==
    /\ pc = "ep_583"
    /\ opcode' = <<AT45_PAGE_ERASE>> \o AddrBytes(addr)
    /\ pc' = "ep_589"
    /\ NoBus
    /\ UNCHANGED <<at45id, stack, ret, ctorv, op, selv, argv, hist, wakev, chipv, ctxv>>

ErasePage_589 == OpAssert("ep_589", "ep_594")

ErasePage_594 == OpDmaTx("at45_erasepage", "ep_594", "ep_596", 0)

ErasePage_596 == OpDeassert("ep_596", "ep_597", <<>>)

\* variant: the page erase reads the status and returns whether the
\* erase / program error bit is clear
ErasePage_597_ReportsError ==
    /\ pc = "ep_597"
    /\ IF stack = <<"idle">> /\ last # <<>> /\ ~IsStatusRead(last)
       THEN /\ Call("gs_401", "ep_597")
            /\ UNCHANGED <<ret, opcode>>
       ELSE /\ Return(1 - ToBool(AT45_STATUS_EP_ERROR(ret % 65536)))
            /\ opcode' = <<>>
    /\ NoBus
    /\ UNCHANGED <<at45id, ctorv, op, selv, argv, hist, wakev, chipv, ctxv>>

ErasePage_597 == OpReturnTrue("ep_597")

-----------------------------------------------------------------------------
(* bool_t at45_ultra_deep_pwrdown_enter(void) *)

\* uint8 opcode[1] = {AT45_ULTRA_DEEP_PDOWN};
PwrdownEnter_608 ==
    /\ pc = "pe_608"
    /\ opcode' = <<AT45_ULTRA_DEEP_PDOWN>>
    /\ pc' = "pe_611"
    /\ NoBus
    /\ UNCHANGED <<at45id, stack, ret, ctorv, op, selv, argv, hist, wakev, chipv, ctxv>>

PwrdownEnter_611 == OpAssert("pe_611", "pe_616")

PwrdownEnter_616 ==
    OpDmaTx("at45_ultra_deep_pwrdown_enter", "pe_616", "pe_618", 0)

PwrdownEnter_618 == OpDeassert("pe_618", "pe_619", <<>>)

PwrdownEnter_619 == OpReturnTrue("pe_619")

-----------------------------------------------------------------------------
(* bool_t at45_ultra_deep_pwrdown_exit(void) *)

PwrdownExit_631 == OpAssert("px_631", "px_632")

\* BUSY_WAIT_US(1);
PwrdownExit_632 ==
    /\ pc = "px_632"
    /\ held' = held + 1
    /\ pc' = "px_633"
    /\ NoBus
    /\ UNCHANGED <<at45id, stack, ret, ctorv, op, selv, argv, opcode, hist,
                   settled, chipv, ctxv>>

\* lwspi_dma_cs_deassert(...): the pulse ends, the chip starts to wake up
PwrdownExit_633 ==
    /\ pc = "px_633"
    /\ CsHigh
    /\ settled' = FALSE
    /\ pc' = "px_634"
    /\ UNCHANGED <<at45id, stack, ret, ctorv, op, selv, argv, opcode, hist,
                   held, chipv, ctxv>>

\* return TRUE;
PwrdownExit_634 == OpReturnTrue("px_634")

\* the environment: the settle time has passed since the wake-up pulse ended
SettleElapsed ==
    /\ ~settled
    /\ settled' = TRUE
    /\ UNCHANGED <<cs, at45id, pc, stack, ret, ctorv, op, open, cur, last,
                   txlog, selv, argv, opcode, hist, held, chipv, ctxv>>

-----------------------------------------------------------------------------
(* bool_t at45_is_ready(void), bool_t at45_is_ep_failed(void) *)

\* variant: the ready predicate answers from the value returned last
\* instead of reading the status
IsReady_639_Cached ==
    /\ pc = "ir_639"
    /\ pc' = "ir_640"
    /\ NoBus
    /\ UNCHANGED <<at45id, stack, ret, ctorv, op, opv>>

\* uint16 status = at45_get_status();
IsReady_639 ==
    /\ pc = "ir_639"
    /\ Call("gs_401", "ir_640")
    /\ NoBus
    /\ UNCHANGED <<at45id, ret, ctorv, op, opv>>

\* return AT45_STATUS_READY(status); as the bool AT45DB.h declares
IsReady_640 ==
    /\ pc = "ir_640"
    /\ Return(ToBool(AT45_STATUS_READY(ret % 65536)))
    /\ polled' = (polled \/ AT45_STATUS_READY(ret % 65536) # 0)
    /\ NoBus
    /\ UNCHANGED <<at45id, ctorv, op, selv, argv, opcode, hist, wakev, mem,
                   pending, written, ctxv>>

\* uint16 status = at45_get_status();
IsEpFailed_645 ==
    /\ pc = "ef_645"
    /\ Call("gs_401", "ef_646")
    /\ NoBus
    /\ UNCHANGED <<at45id, ret, ctorv, op, opv>>

\* return AT45_STATUS_EP_ERROR(status); as the bool AT45DB.h declares
IsEpFailed_646 ==
    /\ pc = "ef_646"
    /\ Return(ToBool(AT45_STATUS_EP_ERROR(ret % 65536)))
    /\ NoBus
    /\ UNCHANGED <<at45id, ctorv, op, opv>>

-----------------------------------------------------------------------------
(* The owner of a constructed handle calls the operations, one at a time *)

Call_at45_readpage ==
    \E a \in Addrs, n \in Sizes :
        CallOp("at45_readpage", "rp_476", a,
               [i \in 1..(n + Guard) |-> Untouched], n)

Call_at45_writepage ==
    /\ Len(hist) < MaxHist
    /\ \E a \in Addrs, n \in Sizes, k \in PayloadKeys :
          CallOp("at45_writepage", "wp_519", a, Payload(k, n), n)

Call_at45_writebuffer ==
    /\ Len(hist) < MaxHist
    /\ \E a \in Addrs, n \in Sizes, k \in PayloadKeys :
          CallOp("at45_writebuffer", "wb_542", a, Payload(k, n), n)

Call_at45_buffer2memory ==
    /\ Len(hist) < MaxHist
    /\ \E a \in Addrs : CallOp("at45_buffer2memory", "bm_563", a, <<>>, 0)

Call_at45_erasepage ==
    \E a \in Addrs : CallOp("at45_erasepage", "ep_583", a, <<>>, 0)

Call_at45_ultra_deep_pwrdown_enter ==
    CallPublic("at45_ultra_deep_pwrdown_enter", "pe_608")

Call_at45_ultra_deep_pwrdown_exit ==
    CallPublic("at45_ultra_deep_pwrdown_exit", "px_631")

Call_at45_is_ready == CallPublic("at45_is_ready", "ir_639")

Call_at45_is_ep_failed == CallPublic("at45_is_ep_failed", "ef_645")

\* a completed select window of function fn: bytes outs sent, ins received
Window(fn, outs, ins) ==
    [i \in 1..Len(outs) |->
        [fn |-> fn, out |-> outs[i], in |-> ins[i], cs |-> AT45_CS_LOW]]

\* the select window of one status read that was answered b1, b2
StatusWindow(b1, b2) ==
    Window("at45_get_status", <<AT45_STATUS_READ, DUMMY, DUMMY>>, <<-1, b1, b2>>)

\* the select window of one identity read that was answered b1, b2, b3
IdWindow(b1, b2, b3) ==
    Window("at45_get_id", <<AT45_ID_READ, DUMMY, DUMMY, DUMMY>>,
           <<-1, b1, b2, b3>>)

\* a constructed handle between two calls: construction found the supported
\* chip already in binary mode
ConstructedHandle ==
    /\ cs = AT45_CS_HIGH
    /\ pc = "idle"
    /\ stack = <<>>
    /\ at45id = AT45DB161E_ID
    /\ txlog = <<IdWindow(31, 38, 0), StatusWindow(129, 1)>>
    /\ last = StatusWindow(129, 1)
    /\ ret = at45id
    /\ at45dbid = 0
    /\ init_status = 0
    /\ sp_status = 0
    /\ gs_data = 0
    /\ gi_data32 = 0
    /\ op = "AT45DB"
    /\ open = FALSE
    /\ cur = <<>>
    /\ polls = 0
    /\ at45_buffer = TRUE
    /\ g_at45_buffer = TRUE
    /\ addr = 0
    /\ buff = <<>>
    /\ size = 0
    /\ opcode = <<>>
    /\ hist = <<>>
    /\ held = 0
    /\ settled = TRUE

\* the chip's memory is left out: the chip shifts back any bytes
OpsInit ==
    /\ ConstructedHandle
    /\ mem = <<>>
    /\ pending = <<>>
    /\ written = <<>>
    /\ polled = TRUE
    /\ other = IdleContext
    /\ overlap = FALSE

OpsNext ==
    \/ Call_at45_readpage \/ ReadPage_476 \/ ReadPage_483 \/ ReadPage_488
    \/ ReadPage_490 \/ ReadPage_491
    \/ Call_at45_writepage \/ WritePage_519 \/ WritePage_525 \/ WritePage_530
    \/ WritePage_532 \/ WritePage_533
    \/ Call_at45_writebuffer \/ WriteBuffer_542 \/ WriteBuffer_547
    \/ WriteBuffer_552 \/ WriteBuffer_554 \/ WriteBuffer_555
    \/ Call_at45_buffer2memory \/ Buffer2Memory_563 \/ Buffer2Memory_570
    \/ Buffer2Memory_575 \/ Buffer2Memory_577 \/ Buffer2Memory_578
    \/ Call_at45_erasepage \/ ErasePage_583 \/ ErasePage_589 \/ ErasePage_594
    \/ ErasePage_596 \/ ErasePage_597
    \/ Call_at45_ultra_deep_pwrdown_enter \/ PwrdownEnter_608
    \/ PwrdownEnter_611 \/ PwrdownEnter_616 \/ PwrdownEnter_618
    \/ PwrdownEnter_619
    \/ Call_at45_ultra_deep_pwrdown_exit \/ PwrdownExit_631 \/ PwrdownExit_632
    \/ PwrdownExit_633 \/ PwrdownExit_634 \/ SettleElapsed
    \/ Call_at45_is_ready \/ IsReady_639 \/ IsReady_640
    \/ Call_at45_is_ep_failed \/ IsEpFailed_645 \/ IsEpFailed_646
    \/ Call_at45_get_status
    \/ GetStatus_401 \/ GetStatus_402 \/ GetStatus_403 \/ GetStatus_405
    \/ GetStatus_407 \/ GetStatus_408

OpsSpec == OpsInit /\ [][OpsNext]_vars

-----------------------------------------------------------------------------
(* The two status predicates over every status word *)

\* at45_is_ready or at45_is_ep_failed has just been handed the status word
\* by at45_get_status; the chip answered any two bytes
PredInit ==
    /\ \E b1 \in 0..255, b2 \in 0..255 :
          /\ ret = b1 * 256 + b2
          /\ last = StatusWindow(b1, b2)
          /\ txlog = <<StatusWindow(b1, b2)>>
    /\ \/ pc = "ir_640" /\ op = "at45_is_ready"
       \/ pc = "ef_646" /\ op = "at45_is_ep_failed"
    /\ stack = <<"idle">>
    /\ cs = AT45_CS_HIGH
    /\ at45id = AT45DB161E_ID
    /\ at45dbid = 0
    /\ init_status = 0
    /\ sp_status = 0
    /\ gs_data = 0
    /\ gi_data32 = 0
    /\ open = FALSE
    /\ cur = <<>>
    /\ polls = 0
    /\ at45_buffer = TRUE
    /\ g_at45_buffer = TRUE
    /\ addr = 0
    /\ buff = <<>>
    /\ size = 0
    /\ opcode = <<>>
    /\ hist = <<>>
    /\ held = 0
    /\ settled = TRUE
    /\ mem = <<>>
    /\ pending = <<>>
    /\ written = <<>>
    /\ polled = TRUE
    /\ other = IdleContext
    /\ overlap = FALSE

PredNext == IsReady_640 \/ IsEpFailed_646

PredSpec == PredInit /\ [][PredNext]_vars

\* bit n of x, bit 0 being the least significant
Bit(x, n) == (x \div (2 ^ n)) % 2

\* op has returned, having read the status word of window last
Answered(name) == pc = "idle" /\ op = name /\ IsStatusRead(last)

\* C11: for every 16-bit status word, at45_is_ready returns true exactly when
\* bit 7 of the upper byte (bit 15 of the word) is set and at45_is_ep_failed
\* returns true exactly when bit 5 of the lower byte is set, whatever the
\* other bits are; 0x8001 is ready without error, 0x0020 is not ready with
\* error
C11_StatusPredicates ==
    /\ Answered("at45_is_ready") =>
          /\ ret \in {0, 1}
          /\ ret = 1 <=> Bit(WordOf(last), 15) = 1
          /\ WordOf(last) = 32769 => ret = 1
          /\ WordOf(last) = 32 => ret = 0
    /\ Answered("at45_is_ep_failed") =>
          /\ ret \in {0, 1}
          /\ ret = 1 <=> Bit(WordOf(last), 5) = 1
          /\ WordOf(last) = 32769 => ret = 0
          /\ WordOf(last) = 32 => ret = 1

\* the error predicate has answered false for the word 0x8001, all of whose
\* set bits are other bits than bit 5
C11_Witness ==
    /\ Answered("at45_is_ep_failed")
    /\ WordOf(last) = 32769
    /\ ret = 0

-----------------------------------------------------------------------------
(* The two selectors *)

IsPageWrite(e) == e[1] = "at45_writepage"
IsCommit(e) == e[1] = "at45_buffer2memory"
IsBufferWrite(e) == e[1] = "at45_writebuffer"

\* the completed page writes / commits since construction, oldest first
PageWrites == SelectSeq(hist, IsPageWrite)
Commits == SelectSeq(hist, IsCommit)

\* the commits completed before the i-th recorded operation
CommitsBefore(i) == SelectSeq(SubSeq(hist, 1, i - 1), IsCommit)

Even(n) == n % 2 = 0

\* positions of at45_writepage / at45_buffer2memory at which the call has
\* toggled its selector and its transaction is not yet recorded in hist
PageWriteToggled == pc \in {"wp_525", "wp_530", "wp_532"}
CommitToggled == pc \in {"bm_570", "bm_575", "bm_577"}

\* C12: the n-th page write after construction sends opcode 0x82 when n is
\* odd and 0x85 when n is even, whatever other operations come between, so
\* two page writes with no page write between them use the two distinct
\* opcodes; every call toggles the page-write selector exactly once
C12_PageWriteAlternates ==
    /\ \A n \in 1..Len(PageWrites) :
          PageWrites[n][2] = IF Even(n) THEN 133 ELSE 130
    /\ \A n \in 1..(Len(PageWrites) - 1) :
          PageWrites[n][2] # PageWrites[n + 1][2]
    /\ at45_buffer = IF PageWriteToggled THEN ~Even(Len(PageWrites))
                                         ELSE Even(Len(PageWrites))

\* a page write, then another operation of the three, then the second page
\* write, which sent 0x85
C12_Witness ==
    /\ pc = "idle"
    /\ Len(hist) >= 3
    /\ hist[1] = <<"at45_writepage", 130>>
    /\ ~IsPageWrite(hist[2])
    /\ hist[3] = <<"at45_writepage", 133>>

\* C13: the n-th commit after construction sends opcode 0x83 when n is odd
\* and 0x86 when n is even, so two commits with no commit between them
\* alternate; the commit selector is toggled by commits only and the
\* page-write selector is left alone by commits, so neither family changes
\* the opcode the other uses next
C13_CommitAlternates ==
    /\ \A n \in 1..Len(Commits) :
          Commits[n][2] = IF Even(n) THEN 134 ELSE 131
    /\ g_at45_buffer = IF CommitToggled THEN ~Even(Len(Commits))
                                        ELSE Even(Len(Commits))
    /\ op = "at45_buffer2memory" => at45_buffer = Even(Len(PageWrites))

\* a commit, then a page write, then the second commit, which sent 0x86
C13_Witness ==
    /\ pc = "idle"
    /\ Len(hist) >= 3
    /\ hist[1] = <<"at45_buffer2memory", 131>>
    /\ IsPageWrite(hist[2])
    /\ hist[3] = <<"at45_buffer2memory", 134>>

\* C14: a buffer write sends 0x84 when the commit selector selects buffer 1
\* and 0x87 otherwise and toggles neither selector, so consecutive buffer
\* writes send the same opcode and the opcodes of the next page write and
\* the next commit are what they would have been without it
C14_BufferWriteKeepsSelectors ==
    /\ \A i \in 1..Len(hist) :
          IsBufferWrite(hist[i]) =>
              hist[i][2] = IF Even(Len(CommitsBefore(i))) THEN 132 ELSE 135
    /\ \A i \in 1..(Len(hist) - 1) :
          IsBufferWrite(hist[i]) /\ IsBufferWrite(hist[i + 1]) =>
              hist[i][2] = hist[i + 1][2]
    /\ op = "at45_writebuffer" =>
          /\ at45_buffer = Even(Len(PageWrites))
          /\ g_at45_buffer = Even(Len(Commits))

\* a commit, then two buffer writes in a row, both of which sent 0x87
C14_Witness ==
    /\ pc = "idle"
    /\ Len(hist) >= 3
    /\ IsCommit(hist[1])
    /\ hist[2] = <<"at45_writebuffer", 135>>
    /\ hist[3] = <<"at45_writebuffer", 135>>

-----------------------------------------------------------------------------
(* What the page, buffer and erase operations put on the bus *)

\* the operations that take an address, and the opcodes each may send
AddressedOps ==
    {"at45_readpage", "at45_writepage", "at45_writebuffer",
     "at45_buffer2memory", "at45_erasepage"}

OpcodesOf(name) ==
    CASE name = "at45_readpage" -> {210}
      [] name = "at45_writepage" -> {130, 133}
      [] name = "at45_writebuffer" -> {132, 135}
      [] name = "at45_buffer2memory" -> {131, 134}
      [] name = "at45_erasepage" -> {129}
      [] OTHER -> {}

\* operation name has returned after one select window, which is last
Completed(name) == pc = "idle" /\ op = name /\ last # <<>>

\* C15: page read, page write, buffer write, commit and page erase send,
\* right after the opcode, exactly three address bytes, most significant
\* first, which put together give the address modulo 2^24; address bits
\* above bit 23 are dropped
C15_AddressBytes ==
    \A name \in AddressedOps :
        Completed(name) =>
            /\ Len(last) = (IF name = "at45_readpage" THEN 8 ELSE 4) + size
            /\ Outs(last)[1] \in OpcodesOf(name)
            /\ Outs(last)[2] = (addr \div 65536) % 256
            /\ Outs(last)[3] = (addr \div 256) % 256
            /\ Outs(last)[4] = addr % 256
            /\ Outs(last)[2] * 65536 + Outs(last)[3] * 256 + Outs(last)[4]
                  = addr % 16777216

\* a page erase of address 0x01123456 has sent 81 12 34 56
C15_Witness ==
    /\ Completed("at45_erasepage")
    /\ addr = 17970262
    /\ Outs(last) = <<129, 18, 52, 86>>

\* positions inside at45_get_status
StatusReadPoints == {"gs_401", "gs_402", "gs_403", "gs_405", "gs_407", "gs_408"}

\* no byte of a status read is among the exchanges of the operation so far
NoStatusExchange ==
    /\ \A i \in 1..Len(cur) : cur[i].fn # "at45_get_status"
    /\ \A k \in 1..Len(txlog) :
          \A i \in 1..Len(txlog[k]) : txlog[k][i].fn # "at45_get_status"

\* C17: a page write is exactly one transaction, the opcode, the three
\* address bytes and the payload bytes in buffer order; from its call to
\* its return it makes no status read and does not poll, so whether the
\* chip has finished is learnt only from a separate, later status read
C17_PageWriteOneTransaction ==
    op = "at45_writepage" =>
        /\ pc \notin StatusReadPoints
        /\ NoStatusExchange
        /\ Len(txlog) <= 1
        /\ pc = "idle" =>
              /\ Len(txlog) = 1
              /\ txlog[1] = last
              /\ \A i \in 1..Len(last) : last[i].fn = "at45_writepage"
              /\ Len(last) = 4 + size
              /\ Outs(last)[1] \in {130, 133}
              /\ \A i \in 1..size : Outs(last)[4 + i] = buff[i]

\* a page write of a whole page has returned
C17_Witness ==
    /\ Completed("at45_writepage")
    /\ size = 512
    /\ Len(last) = 516
    /\ Outs(last)[5] # Outs(last)[6]

\* the four operations that program or erase
ProgramOps ==
    {"at45_writepage", "at45_writebuffer", "at45_buffer2memory",
     "at45_erasepage"}

\* C18: page write, buffer write, commit and page erase return true
\* whatever the chip does; none of them reads the status register, so a
\* failed erase or program shows only in the error bit of a status word
\* read by a later call
C18_ProgramOpsReturnTrue ==
    op \in ProgramOps =>
        /\ pc = "idle" => ret = 1
        /\ pc \notin StatusReadPoints
        /\ \A i \in 1..Len(cur) : cur[i].in = -1
        /\ \A k \in 1..Len(txlog) :
              /\ ~IsStatusRead(txlog[k])
              /\ \A i \in 1..Len(txlog[k]) : txlog[k][i].in = -1

\* a page erase has returned true after its one window
C18_Witness ==
    /\ Completed("at45_erasepage")
    /\ ret = 1
    /\ Len(txlog) = 1

\* C19: a page read of n bytes is one transaction: the eight header bytes
\* 0xD2, three address bytes, four dummy bytes, then exactly n exchanges
\* whose received bytes are stored in order at positions 0..n-1 of the
\* destination; no position at or beyond n is written; it returns true
C19_PageRead ==
    Completed("at45_readpage") =>
        /\ ret = 1
        /\ Len(txlog) = 1
        /\ txlog[1] = last
        /\ Len(last) = 8 + size
        /\ Outs(last)[1] = 210
        /\ \A i \in 5..8 : Outs(last)[i] = 0
        /\ Len(buff) = size + Guard
        /\ \A i \in 1..size : buff[i] = Ins(last)[8 + i] /\ buff[i] \in 0..255
        /\ \A i \in (size + 1)..Len(buff) : buff[i] = Untouched

\* a page read of two bytes has stored the two bytes the chip sent
C19_Witness ==
    /\ Completed("at45_readpage")
    /\ size = 2
    /\ SubSeq(Ins(last), 9, 10) = <<3, 6>>
    /\ SubSeq(buff, 1, 2) = <<3, 6>>

\* C20: at45_ultra_deep_pwrdown_exit transfers no byte: it asserts select,
\* holds it for the pulse delay, deasserts, and returns only after the
\* settle time has passed, so no transaction begins between the deassert
\* and the end of the settle time
C20_ExitWaitsSettle ==
    /\ op = "at45_ultra_deep_pwrdown_exit" =>
          /\ cur = <<>>
          /\ \A k \in 1..Len(txlog) : txlog[k] = <<>>
          /\ pc \in {"px_633", "px_634", "idle"} => held >= 1
          /\ pc = "idle" => settled
    /\ open => settled

\* the wake-up has returned and a status read is on the bus while the settle
\* time has not passed
C20_Witness ==
    /\ op = "at45_get_status"
    /\ open
    /\ cur # <<>>
    /\ ~settled

-----------------------------------------------------------------------------
(* Whole pages written to and read from the chip's memory *)

\* page-aligned addresses the owner uses: 0x000200, and 0x1FFE00 of the last
\* page of the 16 Mbit chip; the pages of the chip they lie in
PageAddrs == {512, 2096640}
ChipPages == {a \div AT45_PAGE_SIZE : a \in PageAddrs}

\* a constructed handle and a chip whose pages of PageAddrs are erased
ChipInit ==
    /\ ConstructedHandle
    /\ mem = [pg \in ChipPages |-> ChipErased]
    /\ pending = <<>>
    /\ written = [a \in PageAddrs |-> <<>>]
    /\ polled = TRUE
    /\ other = IdleContext
    /\ overlap = FALSE

\* the owner writes a whole page, commits or erases only after it has seen
\* the chip ready since its last write, commit or erase
Chip_at45_writepage ==
    /\ polled
    /\ Len(hist) < MaxHist
    /\ \E a \in PageAddrs, k \in PayloadKeys :
          CallObserved("at45_writepage", "wp_519", a,
                       Payload(k, AT45_PAGE_SIZE), AT45_PAGE_SIZE,
                       [written EXCEPT ![a] = Payload(k, AT45_PAGE_SIZE)], FALSE)

Chip_at45_buffer2memory ==
    /\ polled
    /\ Len(hist) < MaxHist
    /\ \E a \in PageAddrs :
          CallObserved("at45_buffer2memory", "bm_563", a, <<>>, 0,
                       [written EXCEPT ![a] = <<>>], FALSE)

Chip_at45_erasepage ==
    /\ polled
    /\ \E a \in PageAddrs :
          CallObserved("at45_erasepage", "ep_583", a, <<>>, 0,
                       [written EXCEPT ![a] = <<>>], FALSE)

\* the owner reads a whole page at any time
Chip_at45_readpage ==
    \E a \in PageAddrs :
        CallOp("at45_readpage", "rp_476", a,
               [i \in 1..(AT45_PAGE_SIZE + Guard) |-> Untouched], AT45_PAGE_SIZE)

ChipNext ==
    \/ Chip_at45_writepage \/ WritePage_519 \/ WritePage_525 \/ WritePage_530
    \/ WritePage_532 \/ WritePage_533
    \/ Chip_at45_buffer2memory \/ Buffer2Memory_563 \/ Buffer2Memory_570
    \/ Buffer2Memory_575 \/ Buffer2Memory_577 \/ Buffer2Memory_578
    \/ Chip_at45_erasepage \/ ErasePage_583 \/ ErasePage_589 \/ ErasePage_594
    \/ ErasePage_596 \/ ErasePage_597
    \/ Chip_at45_readpage \/ ReadPage_476 \/ ReadPage_483 \/ ReadPage_488
    \/ ReadPage_490 \/ ReadPage_491
    \/ Call_at45_is_ready \/ IsReady_639 \/ IsReady_640
    \/ GetStatus_401 \/ GetStatus_402 \/ GetStatus_403 \/ GetStatus_405
    \/ GetStatus_407 \/ GetStatus_408

ChipSpec == ChipInit /\ [][ChipNext]_vars

-----------------------------------------------------------------------------
(* The buffer a commit programs *)

\* no commit is recorded strictly between positions i and j of hist
NoCommitBetween(i, j) == \A k \in (i + 1)..(j - 1) : ~IsCommit(hist[k])

\* C27: a buffer write and the next commit after it, with any page writes
\* and buffer writes but no commit between them, address the same on-chip
\* buffer: the opcodes are 0x84 then 0x83, or 0x87 then 0x86, never 0x84
\* then 0x86 or 0x87 then 0x83
C27_CommitProgramsWrittenBuffer ==
    \A i \in 1..Len(hist) : \A j \in (i + 1)..Len(hist) :
        (IsBufferWrite(hist[i]) /\ IsCommit(hist[j]) /\ NoCommitBetween(i, j)) =>
            <<hist[i][2], hist[j][2]>> \in {<<132, 131>>, <<135, 134>>}

\* a buffer write to buffer 1, then a page write, then the commit, which
\* programmed buffer 1
C27_Witness ==
    /\ pc = "idle"
    /\ Len(hist) >= 3
    /\ hist[1] = <<"at45_writebuffer", 132>>
    /\ IsPageWrite(hist[2])
    /\ hist[3] = <<"at45_buffer2memory", 131>>

-----------------------------------------------------------------------------
(* The status word is read anew by every call *)

\* the public operation name has returned and no other call was made since
Returned(name) == pc = "idle" /\ op = name

\* C21: the status word is never cached: every call of at45_get_status,
\* at45_is_ready and at45_is_ep_failed makes one status-read transaction of
\* its own, and what it returns is a function of the two bytes received in
\* that transaction alone, whatever was read or done before (a wake-up from
\* power-down, writes, erases)
C21_StatusReadAnew ==
    /\ \A name \in {"at45_get_status", "at45_is_ready", "at45_is_ep_failed"} :
          Returned(name) =>
              /\ Len(txlog) = 1
              /\ txlog[1] = last
              /\ IsStatusRead(last)
              /\ \A i \in 2..3 : last[i].in \in 0..255
    /\ Returned("at45_get_status") => ret = last[2].in * 256 + last[3].in
    /\ Returned("at45_is_ready") => ret = (IF last[2].in >= 128 THEN 1 ELSE 0)
    /\ Returned("at45_is_ep_failed") =>
          ret = (IF (last[3].in \div 32) % 2 = 1 THEN 1 ELSE 0)

\* a status read made after the wake-up pulse and after a page write has
\* returned the word 0x8120 of the bytes it received
C21_Witness ==
    /\ Returned("at45_get_status")
    /\ ~settled
    /\ Len(PageWrites) >= 1
    /\ Ins(last) = <<-1, 129, 32>>
    /\ ret = 33056

-----------------------------------------------------------------------------
(* Two execution contexts on one handle.                                   *)
(*                                                                         *)
(* No statement of AT45DB.cpp takes a lock or disables pre-emption, so the *)
(* running context can be switched out between any two statements.  The    *)
(* select pin, the bus and the members of the handle are shared; the       *)
(* position, the stack and the locals are private to a context.            *)

\* the running context is switched out and the other one runs on
Switch ==
    /\ pc' = other.pc
    /\ stack' = other.stack
    /\ ret' = other.ret
    /\ gs_data' = other.gs_data
    /\ gi_data32' = other.gi_data32
    /\ op' = other.op
    /\ other' = [pc |-> pc, stack |-> stack, ret |-> ret, gs_data |-> gs_data,
                 gi_data32 |-> gi_data32, op |-> op]
    /\ UNCHANGED <<cs, open, cur, last, txlog, at45id, at45dbid, init_status,
                   sp_status, polls, selv, argv, opcode, hist, wakev, chipv,
                   overlap>>

\* each context is followed through its first call on the handle
Conc_at45_get_status == op = "AT45DB" /\ Call_at45_get_status
Conc_at45_get_id == op = "AT45DB" /\ Call_at45_get_id

\* a constructed handle, both contexts between calls
ConcInit == OpsInit

ConcNext ==
    \/ Switch
    \/ Conc_at45_get_status
    \/ GetStatus_401 \/ GetStatus_402 \/ GetStatus_403 \/ GetStatus_405
    \/ GetStatus_407 \/ GetStatus_408
    \/ Conc_at45_get_id
    \/ GetId_419 \/ GetId_420 \/ GetId_421 \/ GetId_422 \/ GetId_424
    \/ GetId_426 \/ GetId_427

ConcSpec == ConcInit /\ [][ConcNext]_vars

\* bytes of two different operations lie in window w
Mixed(w) == \E i, j \in 1..Len(w) : w[i].fn # w[j].fn

\* a byte of window w was exchanged while select was high
Torn(w) == \E i \in 1..Len(w) : w[i].cs = AT45_CS_HIGH

\* C22: the driver takes no lock: as long as the callers serialize their
\* calls (no call is made while the other context is inside an operation)
\* every select window is one whole transaction of one operation, and that is the
\* only case in which it is; without serialization, windows that mix the
\* bytes of two operations and bytes exchanged after the other context
\* deasserted select are reachable
C22_ExclusionOnlyIfSerialized ==
    ~overlap =>
        /\ IsFramePrefix(cur)
        /\ ~Mixed(cur) /\ ~Torn(cur)
        /\ cur # <<>> => open /\ cs = AT45_CS_LOW
        /\ last # <<>> => IsFrame(last)
        /\ \A k \in 1..Len(txlog) : IsFrame(txlog[k])
        /\ pc = "idle" \/ other.pc = "idle"

\* a completed select window holds the status opcode of one context and
\* bytes of the identity read of the other, and the status read goes on
\* exchanging a byte although select has been deasserted
C22_Witness ==
    /\ overlap
    /\ Mixed(last)
    /\ last[1].fn = "at45_get_status"
    /\ \E i \in 1..Len(last) : last[i].fn = "at45_get_id"
    /\ Torn(cur)
    /\ cur[1].fn = "at45_get_status"
    /\ cs = AT45_CS_HIGH

-----------------------------------------------------------------------------
(* Termination of the construction.                                        *)
(*                                                                         *)
(* The constructor runs in one thread of control that is never suspended   *)
(* for good, so a statement that can be executed eventually is.  What the  *)
(* chip answers is not under the driver's control and is left free.        *)
LiveSpec == Init /\ [][Next]_vars /\ WF_vars(Next)

\* the status read that init made itself reported binary mode
InitFoundBinary ==
    /\ Len(txlog) >= 2
    /\ IsStatusRead(txlog[2])
    /\ BinaryBit(txlog[2])

\* C23: the construction has no bound on its duration, but it ends whenever
\* the chip lets it: the poll loop is left by the step that follows the
\* first status read answered with the ready bit, from where Configure
\* Binary Geometry returns and the construction completes; the construction
\* completes unless the chip answers busy again and again; and when init's
\* own status read reports binary mode the construction completes whatever
\* the chip does, having made exactly the identity read and that status read
C23_InitReturns ==
    /\ [][ /\ (pc = "sp_457" /\ ReadyBit(last)) => pc' = "sp_459"
           /\ pc = "sp_459" => pc' = "init_83" ]_vars
    /\ (pc = "sp_457" /\ ReadyBit(last)) ~> Constructed
    /\ <>Constructed \/ []<>(pc = "sp_457" /\ ~ReadyBit(last))
    /\ (pc = "init_74" /\ BinaryBit(last)) ~> Constructed
    /\ [](Constructed /\ InitFoundBinary =>
            /\ Len(txlog) = 2
            /\ IsIdRead(txlog[1])
            /\ IsStatusRead(last) /\ last = txlog[2])

\* the geometry-change frame was sent, the chip answered busy as often as
\* the observer counts and then ready, and the loop has been left
C23_Witness ==
    /\ pc = "sp_459"
    /\ FrameSent
    /\ polls = MaxPolls
    /\ IsStatusRead(last)
    /\ ReadyBit(last)

-----------------------------------------------------------------------------
(* The order of the steps of init. *)

\* the two status reads that precede the geometry-change frame, the one of
\* init and the one of Configure Binary Geometry, both reported non-binary
TwoNonBinaryReads ==
    /\ Len(txlog) >= 3
    /\ IsStatusRead(txlog[2]) /\ ~BinaryBit(txlog[2])
    /\ IsStatusRead(txlog[3]) /\ ~BinaryBit(txlog[3])

\* C24: during the construction no byte is transferred before init has
\* deasserted select; the first select window is the identity read and the
\* second a status read; the geometry-change frame is the fourth window or
\* none, so it is sent at most once, and then windows two and three are
\* status reads that both reported non-binary mode
C24_InitOrdering ==
    op = "AT45DB" =>
        /\ pc \in {"ctor_42", "init_53"} => cur = <<>> /\ txlog = <<>> /\ ~open
        /\ pc = "init_59" => cs = AT45_CS_HIGH /\ cur = <<>> /\ txlog = <<>>
        /\ (txlog = <<>> /\ cur # <<>>) => cur[1].fn = "at45_get_id"
        /\ Len(txlog) >= 1 => IsIdRead(txlog[1])
        /\ (Len(txlog) = 1 /\ cur # <<>>) => cur[1].fn = "at45_get_status"
        /\ Len(txlog) >= 2 => IsStatusRead(txlog[2])
        /\ \A k \in 1..Len(txlog) :
              IsGeometryFrame(txlog[k]) => k = 4 /\ TwoNonBinaryReads
        /\ (cur # <<>> /\ cur[1].out = AT45_BINARY_PAGE_FIRST_OPCODE) =>
              Len(txlog) = 3 /\ TwoNonBinaryReads

\* the construction is over; it made the identity read, two status reads
\* that reported non-binary mode and then sent the geometry-change frame
C24_Witness ==
    /\ Constructed
    /\ cs = AT45_CS_HIGH
    /\ IsIdRead(txlog[1])
    /\ TwoNonBinaryReads
    /\ FrameSent

-----------------------------------------------------------------------------
(* An unrecognised device. *)

\* the identity read of the construction answered another identity than the
\* supported one
Mismatched == op = "AT45DB" /\ Len(txlog) >= 1 /\ ~IdMatched

\* C25: a mismatching identity does not end init: when init is about to
\* return after a mismatch it has made its status read; if that read
\* reported non-binary mode it has entered Configure Binary Geometry, whose
\* own status read, if non-binary too, was followed by the geometry-change
\* frame and by status reads up to one with the ready bit; and the identity
\* init resolves, returns and the handle keeps is 0 also when the chip then
\* reports binary mode and Configure Binary Geometry returns true
C25_MismatchGoesOn ==
    /\ (Mismatched /\ pc = "init_91") =>
          /\ Len(txlog) >= 2
          /\ IsStatusRead(txlog[2])
          /\ ~BinaryBit(txlog[2]) =>
                /\ Len(txlog) >= 3
                /\ IsStatusRead(txlog[3])
                /\ ~BinaryBit(txlog[3]) =>
                      /\ FrameSent
                      /\ IsStatusRead(last) /\ ReadyBit(last)
    /\ (Mismatched /\ pc = "sp_459" /\ FrameSent) =>
          polls >= 1 /\ IsStatusRead(last) /\ ReadyBit(last)
    /\ (Mismatched /\ pc = "init_83" /\ FrameSent /\ ret = 1) =>
          BinaryBit(last) /\ at45dbid = 0
    /\ (Mismatched /\ pc = "init_91" /\ FrameSent) => at45dbid = 0
    /\ (Mismatched /\ Constructed /\ FrameSent /\ BinaryBit(last)) => at45id = 0

\* a device answering an identity that is neither 0 nor the supported one
\* was reconfigured to binary mode, and the handle's identity is 0
C25_Witness ==
    /\ Constructed
    /\ Mismatched
    /\ IdOf(txlog[1]) # 0
    /\ TwoNonBinaryReads
    /\ FrameSent
    /\ IsStatusRead(last) /\ ReadyBit(last) /\ BinaryBit(last)
    /\ at45id = 0

-----------------------------------------------------------------------------
(* Read Identity on a handle whose construction resolved the identity to 0 *)

\* a constructed handle between two calls: construction found a chip in
\* binary mode whose identity is not the supported one, and resolved 0
UnrecognisedHandle ==
    /\ cs = AT45_CS_HIGH
    /\ pc = "idle"
    /\ stack = <<>>
    /\ at45id = 0
    /\ \E b1, b2, b3 \in IdBytes :
          /\ b1 * 65536 + b2 * 256 + b3 # AT45DB161E_ID
          /\ txlog = <<IdWindow(b1, b2, b3), StatusWindow(129, 1)>>
    /\ last = StatusWindow(129, 1)
    /\ ret = 0
    /\ at45dbid = 0
    /\ init_status = 0
    /\ sp_status = 0
    /\ gs_data = 0
    /\ gi_data32 = 0
    /\ op = "AT45DB"
    /\ open = FALSE
    /\ cur = <<>>
    /\ polls = 0
    /\ at45_buffer = TRUE
    /\ g_at45_buffer = TRUE
    /\ addr = 0
    /\ buff = <<>>
    /\ size = 0
    /\ opcode = <<>>
    /\ hist = <<>>
    /\ held = 0
    /\ settled = TRUE

IdInit ==
    /\ UnrecognisedHandle
    /\ mem = <<>>
    /\ pending = <<>>
    /\ written = <<>>
    /\ polled = TRUE
    /\ other = IdleContext
    /\ overlap = FALSE

\* the first call made on the handle is Read Identity
First_at45_get_id == op = "AT45DB" /\ Call_at45_get_id

IdNext ==
    \/ First_at45_get_id
    \/ GetId_419 \/ GetId_420 \/ GetId_421 \/ GetId_422 \/ GetId_424
    \/ GetId_426 \/ GetId_427

IdSpec == IdInit /\ [][IdNext]_vars

\* C26: on a handle whose construction resolved the identity to 0, the
\* cached identity is 0 until the first Read Identity call returns; that
\* call makes the identity read and no other transaction, and leaves as
\* cached identity, and returns, the 24-bit value of the three bytes it
\* received, whatever they are
C26_IdentityOverwritten ==
    /\ at45id \in 0..16777215
    /\ ~Returned("at45_get_id") => at45id = 0
    /\ Returned("at45_get_id") =>
          /\ txlog = <<last>>
          /\ IsIdRead(last)
          /\ at45id = IdOf(last)
          /\ ret = at45id

\* one Read Identity call after the construction has returned, and the
\* cached identity is neither 0 nor the supported identity
C26_Witness ==
    /\ Returned("at45_get_id")
    /\ IsIdRead(last)
    /\ at45id = IdOf(last)
    /\ at45id \notin {0, AT45DB161E_ID}

====
